---- MODULE Spec2Model ----
(***************************************************************************)
(* A model of the fetch-coordination engine of Scrape-U: the token bucket  *)
(* and the per-domain rate limiter (scraper/safety/rate_limiter.py), the   *)
(* URL queue (scraper/queue_manager.py), the raw store                     *)
(* (scraper/pipeline/raw_storage.py) and the orchestrator                  *)
(* (scraper/orchestrator.py).                                              *)
(*                                                                         *)
(* Each component has its own specification over the shared variables:     *)
(*   SpecBucket   one TokenBucket driven by refill/consume calls           *)
(*   SpecLimiter  workers running acquire -> fetch -> halt on one limiter  *)
(*   SpecQueue    one URLQueue driven by add/get/peek/clear/reset_seen     *)
(*   SpecStore    one RawStorage driven by concurrent save/delete/load     *)
(*   Spec         the orchestrator: run, its workers and run_single        *)
(* Time is counted in whole ticks; token counts are whole tokens, the      *)
(* refill rate is in tokens per tick.                                      *)
(***************************************************************************)
EXTENDS Integers, Sequences, FiniteSets, TLC

VARIABLES
    now,        \* time.time(), in ticks
    bucket,     \* SpecBucket: the TokenBucket [tokens, last_refill]
    bOp,        \* SpecBucket: the last call made on the bucket, with what it saw
    domains,    \* TokenBucketRateLimiter._domains: domain -> DomainState, or NoDomain
    lpc,        \* SpecLimiter: where each worker stands in _process_url
    ldom,       \* SpecLimiter: the domain of the URL the worker holds
    lnow,       \* acquire's local `now`, read once when acquire starts
    lwake,      \* the time the worker's asyncio.sleep ends
    ltodo,      \* SpecLimiter: URLs not yet taken by a worker
    lastReq,    \* history: the last request started, with halted_until at that time
    lastReturn, \* history: per domain, when acquire last returned (-1: never)
    retGap,     \* history: time between the last two returns of acquire for one domain
    haltHist,   \* history: promised[d], the latest end t0+D of the halts called for d;
                \* due[w], the promised end in force when w's acquire was invoked;
                \* early, whether an acquire returned before the end it was due
    queue,      \* URLQueue._queue: the heap, a sequence of QueueItem
    seen,       \* URLQueue._seen: fingerprints of the URLs accepted
    qstats,     \* URLQueue._added, _processed, _filtered, _duplicates
    qcfg,       \* URLQueue._filter_robots, config.respect_robots_txt, the robots rules
    qOp,        \* history: the last queue call, with what it saw and returned
    accepted,   \* history: how often add accepted each URL string
    qcalls,     \* history: add calls and reset_seen calls made
    qget,       \* SpecQueueTimed: a get(timeout) under way: [pc, start, timeout, wake]
    qadd,       \* SpecQueueLock: an add under way inside "async with self._lock"
    initialized,\* RawStorage._initialized
    metadata,   \* RawStorage._metadata: url_hash -> StoredContent record, or NoEntry
    diskMeta,   \* metadata.json: NoFile, Truncated, or Persisted(index)
    files,      \* the content files: url_hash -> Absent, Partial or the content
    spc,        \* SpecStore: where each caller of the store stands
    sargs,      \* SpecStore: the call each caller makes: [op, url, content]
    slocal,     \* SpecStore: a caller's locals: [orphan, snap, stored]
    sret,       \* history: the last store call that returned, what it returned, which
                \* content files were on disk then, and whether it was a save that
                \* followed a save of the same URL and content
    scalls,     \* history: store calls started
    run,        \* Spec: the run call: [state, n, stop, allStored, fetches, cached], with
                \* added (add_many's count), ever (stop was called on this orchestrator)
                \* and qAtStop (the queue length when stop was called)
    env,        \* Spec: whether the browser driver can be started
    ostore,     \* Spec: the URLs the store's index holds
    browser,    \* Orchestrator._browser_fetcher: [fetcher, running], and the drivers
                \* started and closed since the last call of run / run_single
    stats,      \* Orchestrator._stats
    results,    \* Orchestrator._results
    opc,        \* Spec: where each worker stands in _worker / _process_url
    ow,         \* Spec: the worker's locals in _process_url, with its result when it ended
    rcfg,       \* SpecRobots: config.respect_robots_txt
    rparsers,   \* RobotsParser._parsers: origin -> the parsed rules, or NoParser
    rcache,     \* RobotsParser._cache (on disk): origin -> content and expire_time
    rlock,      \* RobotsParser._lock: the caller that holds it, or NoHolder
    rpc,        \* SpecRobots: where each caller of can_fetch / get_crawl_delay stands
    rcall,      \* SpecRobots: the call each caller has pending
    rlog,       \* history: fetches per origin since the memory cache was last empty,
                \* how often the memory cache was emptied, and the last answer given
    pcfg,       \* config.proxy.enabled and ProxyPool._strategy
    proxies,    \* ProxyPool._proxies: the list of Proxy [is_healthy, failure_count]
    pindex,     \* ProxyPool._current_index
    pfly,       \* SpecProxy: each fetch in flight and the proxy it was given
    phist       \* history: per proxy [reported, sick], and the last call on the pool:
                \* a get_proxy (last), a health_check (check) or the end of a fetch (req)

bucketVars == <<bucket, bOp>>
queueVars == <<queue, seen, qstats, qcfg, qOp, accepted, qcalls, qget, qadd>>
storeVars == <<initialized, metadata, diskMeta, files, spc, sargs, slocal, sret, scalls>>
orchVars == <<run, env, ostore, browser, stats, results, opc, ow>>
robotsVars == <<rcfg, rparsers, rcache, rlock, rpc, rcall, rlog>>
proxyVars == <<pcfg, proxies, pindex, pfly, phist>>
limiterVars == <<domains, lpc, ldom, lnow, lwake, ltodo, lastReq, lastReturn, retGap,
                haltHist>>

Min(a, b) == IF a <= b THEN a ELSE b

\* ceil(a / b) for a >= 0, b > 0: a sleep of a/b seconds lasts that many ticks
CeilDiv(a, b) == (a + b - 1) \div b

(***************************************************************************)
(* Bounds and configuration                                                *)
(***************************************************************************)
\* time.time() when the process starts; DomainState.last_request starts at 0.0,
\* far in the past of any real clock
Epoch == 10
\* ticks the clock may advance
MaxTime == 6
\* TokenBucket.max_tokens (constructor argument)
MaxTokens == 2
\* TokenBucket.refill_rate, tokens per tick (constructor argument)
RefillRate == 1
\* a limiter constructed with max_tokens = 1
SmallBurst == 1
\* largest n passed to consume(n) / time_until_available(n)
MaxConsume == 2
\* rate_limit.min_delay and rate_limit.max_delay, in ticks
MinDelay == 2
MaxDelay == 3
\* rate_limit.strict_min_delay and rate_limit.strict_max_delay, in ticks
StrictMinDelay == 4
StrictMaxDelay == 5
\* halt_on_403, halt_on_429, halt_on_captcha and halt_domain's fallback, in ticks
HaltOn403 == 2
HaltOn429 == 3
HaltOnCaptcha == 4
HaltDefault == 2
\* concurrent workers of the limiter specification
NumLimWorkers == 2
\* URLs the workers of the limiter specification process
NumLimUrls == 3
\* domains the URLs are spread over
NumDomains == 1
\* URLQueue max_size (constructor argument)
MaxSize == 2
\* add calls made on the queue
MaxAdds == 3
MaxQueueTime == 2
\* concurrent callers of the store
NumStoreTasks == 2
\* URLs stored
NumStoreUrls == 2
\* store calls started
MaxStoreCalls == 3
MaxStoreTime == 1
\* workers of a run (run's workers argument)
NumWorkers == 2
\* calls of run and run_single on one orchestrator
MaxRuns == 2

(***************************************************************************)
(* TokenBucket (rate_limiter.py:17-66)                                     *)
(***************************************************************************)
\* TokenBucket.__post_init__: a fresh bucket is full
NewBucket(t) == [tokens |-> MaxTokens, last_refill |-> t, max_tokens |-> MaxTokens]

\* refill without the cap at max_tokens
RefillNoCap(b, t) ==
    [tokens |-> b.tokens + (t - b.last_refill) * RefillRate, last_refill |-> t,
     max_tokens |-> b.max_tokens]

\* TokenBucket.refill at time t
Refill(b, t) ==
    [tokens |-> Min(b.max_tokens, b.tokens + (t - b.last_refill) * RefillRate),
     last_refill |-> t, max_tokens |-> b.max_tokens]

\* a consume that grants without taking the tokens
ConsumeKeepsTokens(b, n, t) ==
    LET r == Refill(b, t)
    IN  <<r, r.tokens >= n>>

\* TokenBucket.consume(n) at time t: <<bucket after, returned value>>
Consume(b, n, t) ==
    LET r == Refill(b, t)
    IN  IF r.tokens >= n
        THEN <<[r EXCEPT !.tokens = r.tokens - n], TRUE>>
        ELSE <<r, FALSE>>

\* TokenBucket.time_until_available(n) at time t: <<bucket after, ticks to wait>>
TimeUntilAvailable(b, n, t) ==
    LET r == Refill(b, t)
    IN  IF r.tokens >= n
        THEN <<r, 0>>
        ELSE <<r, CeilDiv(n - r.tokens, RefillRate)>>

\* the last call on the bucket: the token count and the time since the last refill
\* it found, its argument and what it returned. units counts the consume(1) calls
\* granted since construction, as long as no time has passed and every consume
\* asked for one token; it is -1 once that is no longer so
NoOp == [kind |-> "none", prev |-> 0, elapsed |-> 0, n |-> 0, ret |-> 0, units |-> 0]

BucketInit ==
    /\ bucket = NewBucket(Epoch)
    /\ bOp = NoOp

\* the clock advances
Tick ==
    /\ now < Epoch + MaxTime
    /\ now' = now + 1

BTick ==
    /\ Tick
    /\ UNCHANGED <<bucketVars, limiterVars, queueVars, storeVars, orchVars, robotsVars, proxyVars>>

BRefill ==
    /\ bucket' = Refill(bucket, now)
    /\ bOp' = [kind |-> "refill", prev |-> bucket.tokens,
               elapsed |-> now - bucket.last_refill, n |-> 0, ret |-> 0,
               units |-> bOp.units]
    /\ UNCHANGED <<now, limiterVars, queueVars, storeVars, orchVars, robotsVars, proxyVars>>

BConsume ==
    \E n \in 1..MaxConsume :
        /\ bucket' = Consume(bucket, n, now)[1]
        /\ bOp' = [kind |-> "consume", prev |-> bucket.tokens,
                   elapsed |-> now - bucket.last_refill, n |-> n,
                   ret |-> IF Consume(bucket, n, now)[2] THEN 1 ELSE 0,
                   units |-> IF now = Epoch /\ n = 1 /\ bOp.units >= 0
                             THEN bOp.units + (IF Consume(bucket, n, now)[2] THEN 1 ELSE 0)
                             ELSE -1]
        /\ UNCHANGED <<now, limiterVars, queueVars, storeVars, orchVars, robotsVars, proxyVars>>

BTimeUntilAvailable ==
    \E n \in 1..MaxConsume :
        /\ bucket' = TimeUntilAvailable(bucket, n, now)[1]
        /\ bOp' = [kind |-> "time_until_available", prev |-> bucket.tokens,
                   elapsed |-> now - bucket.last_refill, n |-> n,
                   ret |-> TimeUntilAvailable(bucket, n, now)[2],
                   units |-> bOp.units]
        /\ UNCHANGED <<now, limiterVars, queueVars, storeVars, orchVars, robotsVars, proxyVars>>


(***************************************************************************)
(* TokenBucketRateLimiter (rate_limiter.py:69-250) and the part of         *)
(* Orchestrator._process_url / _fetch_url that calls it                    *)
(***************************************************************************)
Domains == 1..NumDomains
LimWorkers == 1..NumLimWorkers

NoDomain == [exists |-> FALSE]

\* DomainState(bucket=TokenBucket(...)) as _get_domain_state creates it at time t
NewDomainState(t) ==
    [exists |-> TRUE, bucket |-> NewBucket(t), last_request |-> 0,
     halted_until |-> 0, consecutive_errors |-> 0, strict_mode |-> FALSE]

\* _get_domain_state: get or create
GetDomainState(ds, d, t) == IF ds[d].exists THEN ds[d] ELSE NewDomainState(t)

\* _get_delay: the values random.uniform may return
DelayRange(st) ==
    IF st.strict_mode THEN StrictMinDelay..StrictMaxDelay ELSE MinDelay..MaxDelay

\* halt_domain's duration_map.get(reason, 60)
HaltDuration(reason) ==
    CASE reason = "403" -> HaltOn403
      [] reason = "429" -> HaltOn429
      [] reason = "captcha" -> HaltOnCaptcha
      [] OTHER -> HaltDefault

\* halt_domain(url, reason=...) at time t
HaltDomain(ds, d, reason, t) ==
    LET st == GetDomainState(ds, d, t)
    IN  [ds EXCEPT ![d] = [st EXCEPT !.halted_until = t + HaltDuration(reason),
                                     !.consecutive_errors = @ + 1]]

\* report_success(url) at time t
ReportSuccess(ds, d, t) ==
    [ds EXCEPT ![d] = [GetDomainState(ds, d, t) EXCEPT !.consecutive_errors = 0]]

NoReq == [kind |-> "none", d |-> 0, at |-> 0, halted_until |-> 0]

LimiterInit ==
    /\ domains = [d \in Domains |-> NoDomain]
    /\ lpc = [w \in LimWorkers |-> "idle"]
    /\ ldom = [w \in LimWorkers |-> 0]
    /\ lnow = [w \in LimWorkers |-> 0]
    /\ lwake = [w \in LimWorkers |-> 0]
    /\ ltodo = NumLimUrls
    /\ lastReq = NoReq
    /\ lastReturn = [d \in Domains |-> -1]
    /\ retGap = -1
    /\ haltHist = [promised |-> [d \in Domains |-> 0], due |-> [w \in LimWorkers |-> 0],
                   early |-> FALSE]

\* acquire's last line, state.last_request = time.time(), and its return
AcquireReturn(w, d, ds) ==
    /\ domains' = [ds EXCEPT ![d].last_request = now]
    /\ lpc' = [lpc EXCEPT ![w] = "acquired"]
    /\ lnow' = [lnow EXCEPT ![w] = 0]
    /\ lwake' = [lwake EXCEPT ![w] = 0]
    /\ retGap' = IF lastReturn[d] < 0 THEN retGap ELSE now - lastReturn[d]
    /\ lastReturn' = [lastReturn EXCEPT ![d] = now]

\* acquire from "while not state.bucket.consume()" on (rate_limiter.py:163-176),
\* up to its next sleep; ds holds the domain state, t0 is acquire's local `now`
AcquireTokens(w, d, ds, t0) ==
    LET st == ds[d]
        c == Consume(st.bucket, 1, now)
    IN  IF ~c[2]
        THEN LET tu == TimeUntilAvailable(c[1], 1, now)
             IN  /\ domains' = [ds EXCEPT ![d].bucket = tu[1]]
                 /\ lpc' = [lpc EXCEPT ![w] = "token_sleep"]
                 /\ lnow' = [lnow EXCEPT ![w] = t0]
                 /\ lwake' = [lwake EXCEPT ![w] = now + tu[2]]
                 /\ UNCHANGED <<lastReturn, retGap>>
        ELSE \E delay \in DelayRange(st) :
                 LET time_since_last == t0 - st.last_request
                     ds2 == [ds EXCEPT ![d].bucket = c[1]]
                 IN  IF time_since_last < delay
                     THEN /\ domains' = ds2
                          /\ lpc' = [lpc EXCEPT ![w] = "jitter_sleep"]
                          /\ lnow' = [lnow EXCEPT ![w] = 0]
                          /\ lwake' = [lwake EXCEPT ![w] = now + (delay - time_since_last)]
                          /\ UNCHANGED <<lastReturn, retGap>>
                     ELSE AcquireReturn(w, d, ds2)

\* a worker takes a URL and enters acquire (rate_limiter.py:154-161)
LAcquire(w) ==
    /\ lpc[w] = "idle"
    /\ ltodo > 0
    /\ ltodo' = ltodo - 1
    /\ \E d \in Domains :
        LET ds == [domains EXCEPT ![d] = GetDomainState(domains, d, now)]
        IN  /\ ldom' = [ldom EXCEPT ![w] = d]
            /\ IF ds[d].halted_until > now
               THEN /\ domains' = ds
                    /\ lpc' = [lpc EXCEPT ![w] = "halt_sleep"]
                    /\ lnow' = [lnow EXCEPT ![w] = now]
                    /\ lwake' = [lwake EXCEPT ![w] = now + (ds[d].halted_until - now)]
                    /\ UNCHANGED <<lastReturn, retGap>>
               ELSE AcquireTokens(w, d, ds, now)
            /\ LET due == IF haltHist.promised[d] > now THEN haltHist.promised[d] ELSE 0
               IN  haltHist' = IF lpc'[w] = "acquired"
                               THEN [haltHist EXCEPT !.early = @ \/ now < due]
                               ELSE [haltHist EXCEPT !.due[w] = due]
    /\ UNCHANGED <<now, bucketVars, queueVars, storeVars, orchVars, lastReq, robotsVars, proxyVars>>

\* asyncio.sleep(wait_time) of the halt check or of the token loop ends
LWake(w) ==
    /\ lpc[w] \in {"halt_sleep", "token_sleep"}
    /\ now >= lwake[w]
    /\ AcquireTokens(w, ldom[w], domains, lnow[w])
    /\ haltHist' = IF lpc'[w] = "acquired"
                   THEN [haltHist EXCEPT !.early = @ \/ now < haltHist.due[w], !.due[w] = 0]
                   ELSE haltHist
    /\ UNCHANGED <<now, bucketVars, queueVars, storeVars, orchVars, ldom, ltodo, lastReq, robotsVars, proxyVars>>

\* asyncio.sleep(delay - time_since_last) ends
LWakeJitter(w) ==
    /\ lpc[w] = "jitter_sleep"
    /\ now >= lwake[w]
    /\ AcquireReturn(w, ldom[w], domains)
    /\ haltHist' = IF lpc'[w] = "acquired"
                   THEN [haltHist EXCEPT !.early = @ \/ now < haltHist.due[w], !.due[w] = 0]
                   ELSE haltHist
    /\ UNCHANGED <<now, bucketVars, queueVars, storeVars, orchVars, ldom, ltodo, lastReq, robotsVars, proxyVars>>

\* a request to the worker's domain starts
StartRequest(w, kind) ==
    lastReq' = [kind |-> kind, d |-> ldom[w], at |-> now,
                halted_until |-> domains[ldom[w]].halted_until]

\* _fetch_url: self._http_fetcher.fetch(url) sends the static request
LStaticStart(w) ==
    /\ lpc[w] = "acquired"
    /\ StartRequest(w, "static")
    /\ lpc' = [lpc EXCEPT ![w] = "static"]
    /\ UNCHANGED <<now, bucketVars, queueVars, storeVars, orchVars, domains, ldom, lnow, lwake, ltodo, lastReturn, retGap, haltHist, robotsVars, proxyVars>>

\* the static fetch succeeded and quick_check is false: save, report_success
LStaticOk(w) ==
    /\ lpc[w] = "static"
    /\ domains' = ReportSuccess(domains, ldom[w], now)
    /\ lpc' = [lpc EXCEPT ![w] = "idle"]
    /\ UNCHANGED <<now, bucketVars, queueVars, storeVars, orchVars, ldom, lnow, lwake, ltodo, lastReq, lastReturn, retGap, haltHist, robotsVars, proxyVars>>

\* the static fetch succeeded and quick_check is true: go on to the browser
LStaticNeedsBrowser(w) ==
    /\ lpc[w] = "static"
    /\ lpc' = [lpc EXCEPT ![w] = "browser"]
    /\ UNCHANGED <<now, bucketVars, queueVars, storeVars, orchVars, domains, ldom, lnow, lwake, ltodo, lastReq,
                   lastReturn, retGap, haltHist, robotsVars, proxyVars>>

\* the static fetch was answered 403 or 429: halt_domain, then the browser
LStaticBlocked(w) ==
    /\ lpc[w] = "static"
    /\ \E status \in {"403", "429"} :
           /\ domains' = HaltDomain(domains, ldom[w], status, now)
           /\ haltHist' = [haltHist EXCEPT !.promised[ldom[w]] =
                               IF now + HaltDuration(status) > @
                               THEN now + HaltDuration(status) ELSE @]
    /\ lpc' = [lpc EXCEPT ![w] = "browser"]
    /\ UNCHANGED <<now, bucketVars, queueVars, storeVars, orchVars, ldom, lnow, lwake, ltodo, lastReq, lastReturn, retGap, robotsVars, proxyVars>>

\* the static fetch failed otherwise: the URL fails
LStaticFailed(w) ==
    /\ lpc[w] = "static"
    /\ lpc' = [lpc EXCEPT ![w] = "idle"]
    /\ UNCHANGED <<now, bucketVars, queueVars, storeVars, orchVars, domains, ldom, lnow, lwake, ltodo, lastReq,
                   lastReturn, retGap, haltHist, robotsVars, proxyVars>>

\* _fetch_url: self._browser_fetcher.fetch(url) sends the dynamic request
LDynamicStart(w) ==
    /\ lpc[w] = "browser"
    /\ StartRequest(w, "dynamic")
    /\ lpc' = [lpc EXCEPT ![w] = "dynamic"]
    /\ UNCHANGED <<now, bucketVars, queueVars, storeVars, orchVars, domains, ldom, lnow, lwake, ltodo, lastReturn, retGap, haltHist, robotsVars, proxyVars>>

\* the dynamic fetch ends; report_success when it succeeded
LDynamicDone(w) ==
    /\ lpc[w] = "dynamic"
    /\ \E ok \in BOOLEAN :
           domains' = IF ok THEN ReportSuccess(domains, ldom[w], now) ELSE domains
    /\ lpc' = [lpc EXCEPT ![w] = "idle"]
    /\ UNCHANGED <<now, bucketVars, queueVars, storeVars, orchVars, ldom, lnow, lwake, ltodo, lastReq, lastReturn, retGap, haltHist, robotsVars, proxyVars>>

LTick ==
    /\ Tick
    /\ UNCHANGED <<bucketVars, limiterVars, queueVars, storeVars, orchVars, robotsVars, proxyVars>>


(***************************************************************************)
(* URLQueue (queue_manager.py:17-240). A URL is a sequence of characters.  *)
(***************************************************************************)
\* the URL strings handed to the queue: spellings of "a", of "/a" and "aa"
UrlStrings ==
    {<<"a">>, <<"A">>, <<"a", "/">>, <<"a", "/", "/">>, <<"/", "a">>, <<"a", "a">>}

\* Priority (IntEnum): CRITICAL, HIGH, NORMAL, LOW
Priorities == 0..3

\* str.lower on one character
LowerChar(c) == IF c = "A" THEN "a" ELSE c

\* str.lower
Lower(u) == [i \in 1..Len(u) |-> LowerChar(u[i])]

RECURSIVE RStripSlash(_)
\* str.rstrip("/"): every trailing slash goes
RStripSlash(u) ==
    IF u # <<>> /\ u[Len(u)] = "/" THEN RStripSlash(SubSeq(u, 1, Len(u) - 1)) ELSE u

\* _url_hash's normalized = url.rstrip("/").lower()
Normalize(u) == Lower(RStripSlash(u))

\* _url_hash: the md5 digest of the normalized URL, one digest per string
UrlHash(u) == Normalize(u)

\* an order that puts the larger priority value first
ItemMore(x, y) == x.priority > y.priority

\* QueueItem.__lt__ (order=True, only priority compares)
ItemLess(x, y) == x.priority < y.priority

RECURSIVE SiftDown(_, _, _, _)
\* heapq._siftdown(heap, startpos, pos) carrying newitem; positions count from 0
SiftDown(heap, startpos, pos, newitem) ==
    IF pos > startpos /\ ItemLess(newitem, heap[((pos - 1) \div 2) + 1])
    THEN SiftDown([heap EXCEPT ![pos + 1] = heap[((pos - 1) \div 2) + 1]],
                  startpos, (pos - 1) \div 2, newitem)
    ELSE [heap EXCEPT ![pos + 1] = newitem]

\* heapq.heappush
HeapPush(heap, item) == SiftDown(Append(heap, item), 0, Len(heap), item)

RECURSIVE SiftUp(_, _, _)
\* heapq._siftup's loop: bubble the smaller child up until a leaf; <<heap, pos>>
SiftUp(heap, pos, endpos) ==
    LET childpos == 2 * pos + 1
        rightpos == childpos + 1
        c == IF rightpos < endpos /\ ~ItemLess(heap[childpos + 1], heap[rightpos + 1])
             THEN rightpos ELSE childpos
    IN  IF childpos < endpos
        THEN SiftUp([heap EXCEPT ![pos + 1] = heap[c + 1]], c, endpos)
        ELSE <<heap, pos>>

\* heapq.heappop on a non-empty heap: <<heap after, item returned>>
HeapPop(heap) ==
    LET lastelt == heap[Len(heap)]
        rest == SubSeq(heap, 1, Len(heap) - 1)
    IN  IF rest = <<>>
        THEN <<rest, lastelt>>
        ELSE LET up == SiftUp([rest EXCEPT ![1] = lastelt], 0, Len(rest))
             IN  <<SiftDown(up[1], 0, up[2], lastelt), rest[1]>>

\* u starts with r
IsPrefix(r, u) == Len(r) <= Len(u) /\ SubSeq(u, 1, Len(r)) = r

\* the answer of the cached robots rules: no Disallow path is a prefix of the URL
RobotsAllows(rules, u) == \A r \in rules : ~IsPrefix(r, u)

\* RobotsParser.can_fetch
CanFetch(cfg, u) == ~cfg.respect_robots_txt \/ RobotsAllows(cfg.rules, u)

\* add without a robots check
RobotsRejectsNever(cfg, u) == FALSE

\* add's robots check: "if self._filter_robots and self._robots" and not can_fetch
RobotsRejects(cfg, u) == cfg.filter_robots /\ ~CanFetch(cfg, u)

\* add that never finds the queue full
AddOutcomeNoCap(q, sn, cfg, u) ==
    IF UrlHash(u) \in sn THEN "duplicate"
    ELSE IF RobotsRejects(cfg, u) THEN "filtered"
    ELSE "added"

\* add that does not consult the seen set
AddOutcomeNoDedup(q, sn, cfg, u) ==
    IF Len(q) >= cfg.max_size THEN "full"
    ELSE IF RobotsRejects(cfg, u) THEN "filtered"
    ELSE "added"

\* URLQueue.add's decision, in the order of its checks
AddOutcome(q, sn, cfg, u) ==
    IF UrlHash(u) \in sn THEN "duplicate"
    ELSE IF Len(q) >= cfg.max_size THEN "full"
    ELSE IF RobotsRejects(cfg, u) THEN "filtered"
    ELSE "added"

\* no item: what get returns as None. seq is not a field of QueueItem: it records
\* how many items add had accepted before this one, for statements about order
NoItem == [priority |-> -1, url |-> <<>>, seq |-> 0]

\* timeout = None
NoTimeout == -1

\* the timeout a caller passes to get, in ticks
GetTimeout == 2

\* asyncio.sleep(0.1) between two looks at the queue, in ticks
SleepStep == 1

\* the last call on the queue. For a get: ret, whether an item was returned, the
\* item, the timeout it was called with, and the time between call and return
NoQOp == [kind |-> "none", url |-> <<>>, ret |-> FALSE, wasSeen |-> FALSE,
          len |-> 0, permitted |-> FALSE, item |-> NoItem, timeout |-> NoTimeout,
          waited |-> 0]

\* no get(timeout) is waiting
NoGetter == [pc |-> "idle", start |-> 0, timeout |-> NoTimeout, wake |-> 0]

\* no add is inside "async with self._lock"; cached: the robots cache holds the
\* rules of the URLs' origin, so can_fetch answers without a fetch
NoAdder == [pc |-> "idle", url |-> <<>>, priority |-> 0, cached |-> FALSE]

\* a queue no specification but SpecQueue touches
QueueIdle ==
    /\ queue = <<>>
    /\ seen = {}
    /\ qstats = [added |-> 0, processed |-> 0, filtered |-> 0, duplicates |-> 0]
    /\ qcfg = [filter_robots |-> TRUE, respect_robots_txt |-> TRUE, rules |-> {},
               max_size |-> MaxSize]
    /\ qOp = NoQOp
    /\ accepted = [u \in UrlStrings |-> 0]
    /\ qcalls = [add |-> 0, reset_seen |-> 0]
    /\ qget = NoGetter
    /\ qadd = NoAdder

\* URLQueue.__init__, for each filter_robots, respect_robots_txt and rule set
QueueInit ==
    /\ queue = <<>>
    /\ seen = {}
    /\ qstats = [added |-> 0, processed |-> 0, filtered |-> 0, duplicates |-> 0]
    /\ qcfg \in [filter_robots : BOOLEAN, respect_robots_txt : BOOLEAN,
                 rules : {{<<"/">>}}, max_size : {MaxSize}]
    /\ qOp = NoQOp
    /\ accepted = [u \in UrlStrings |-> 0]
    /\ qcalls = [add |-> 0, reset_seen |-> 0]
    /\ qget = NoGetter
    /\ qadd = NoAdder

\* an add that marks the URL seen whatever its outcome
SeenAfterAnyAdd(sn, u, out) == sn \cup {UrlHash(u)}

\* self._seen after add: "self._seen.add(url_hash)" runs only after the push
\* (queue_manager.py:138-139)
SeenAfter(sn, u, out) == IF out = "added" THEN sn \cup {UrlHash(u)} ELSE sn

\* add(url, priority) from its checks to its return (queue_manager.py:115-142)
AddFinish(u, p) ==
    LET out == AddOutcome(queue, seen, qcfg, u)
    IN  /\ queue' = IF out = "added"
                    THEN HeapPush(queue, [priority |-> p, url |-> u,
                                          seq |-> qstats.added])
                    ELSE queue
        /\ seen' = SeenAfter(seen, u, out)
        /\ qstats' = CASE out = "added" -> [qstats EXCEPT !.added = @ + 1]
                       [] out = "duplicate" -> [qstats EXCEPT !.duplicates = @ + 1]
                       [] out = "filtered" -> [qstats EXCEPT !.filtered = @ + 1]
                       [] OTHER -> qstats
        /\ accepted' = IF out = "added" THEN [accepted EXCEPT ![u] = @ + 1]
                       ELSE accepted
        /\ qOp' = [kind |-> "add", url |-> u, ret |-> (out = "added"),
                   wasSeen |-> (UrlHash(u) \in seen), len |-> Len(queue),
                   permitted |-> ~RobotsRejects(qcfg, u)]
        /\ qcalls' = [qcalls EXCEPT !.add = @ + 1]

\* URLQueue.add(url, priority), the robots answer coming from the cache
QAdd ==
    /\ qcalls.add < MaxAdds
    /\ \E u \in UrlStrings, p \in Priorities : AddFinish(u, p)
    /\ UNCHANGED <<now, qget, qadd, bucketVars, limiterVars, storeVars, orchVars, qcfg, robotsVars, proxyVars>>

\* add reaches "await self._robots.can_fetch(url)" (queue_manager.py:124-125) and
\* the rules of the origin are not cached: _get_parser fetches robots.txt
NeedsRobotsFetch(u) ==
    /\ UrlHash(u) \notin seen
    /\ Len(queue) < qcfg.max_size
    /\ qcfg.filter_robots
    /\ qcfg.respect_robots_txt
    /\ ~qadd.cached

\* URLQueue.add(url, priority) is called: it takes self._lock (queue_manager.py:113)
\* and runs to its return, or to the robots.txt fetch that can_fetch awaits
QAddCall ==
    /\ qcalls.add < MaxAdds
    /\ qadd.pc = "idle"
    /\ qget.pc # "lock_wait"
    /\ \E u \in UrlStrings, p \in Priorities :
           IF NeedsRobotsFetch(u)
           THEN /\ qadd' = [qadd EXCEPT !.pc = "robots", !.url = u, !.priority = p]
                /\ UNCHANGED <<queue, seen, qstats, accepted, qOp, qcalls>>
           ELSE /\ AddFinish(u, p)
                /\ UNCHANGED qadd
    /\ UNCHANGED <<now, qget, bucketVars, limiterVars, storeVars, orchVars, qcfg, robotsVars,
                   proxyVars>>

\* the robots.txt fetch ends and can_fetch answers: add goes on to its return and
\* leaves "async with self._lock"
QAddRobotsDone ==
    /\ qadd.pc = "robots"
    /\ AddFinish(qadd.url, qadd.priority)
    /\ qadd' = [NoAdder EXCEPT !.cached = TRUE]
    /\ UNCHANGED <<now, qget, bucketVars, limiterVars, storeVars, orchVars, qcfg, robotsVars,
                   proxyVars>>

\* URLQueue.get(): pops the heap, or returns None when the queue is empty
QGet ==
    /\ IF queue # <<>>
       THEN /\ queue' = HeapPop(queue)[1]
            /\ qstats' = [qstats EXCEPT !.processed = @ + 1]
            /\ qOp' = [NoQOp EXCEPT !.kind = "get", !.ret = TRUE,
                                    !.item = HeapPop(queue)[2]]
       ELSE /\ qOp' = [NoQOp EXCEPT !.kind = "get"]
            /\ UNCHANGED <<queue, qstats>>
    /\ UNCHANGED <<now, qget, qadd, bucketVars, limiterVars, storeVars, orchVars, seen, qcfg, accepted, qcalls, robotsVars, proxyVars>>

\* a get that returns None as soon as it finds the queue empty
TimedOutAtOnce(elapsed, timeout) == TRUE

\* get: "if timeout is None: return None", then "elapsed >= timeout"
\* (queue_manager.py:186-191)
TimedOut(elapsed, timeout) == timeout = NoTimeout \/ elapsed >= timeout

\* one round of get's loop (queue_manager.py:179-193) for a call made at start
\* with the given timeout: pop and return the item, return None, or sleep
GetRound(start, timeout) ==
    IF queue # <<>>
    THEN /\ queue' = HeapPop(queue)[1]
         /\ qstats' = [qstats EXCEPT !.processed = @ + 1]
         /\ qOp' = [NoQOp EXCEPT !.kind = "get", !.ret = TRUE, !.item = HeapPop(queue)[2],
                                 !.timeout = timeout, !.waited = now - start]
         /\ qget' = NoGetter
    ELSE IF TimedOut(now - start, timeout)
    THEN /\ qOp' = [NoQOp EXCEPT !.kind = "get", !.timeout = timeout, !.waited = now - start]
         /\ qget' = NoGetter
         /\ UNCHANGED <<queue, qstats>>
    ELSE /\ qget' = [pc |-> "sleeping", start |-> start, timeout |-> timeout,
                     wake |-> now + SleepStep]
         /\ UNCHANGED <<queue, qstats, qOp>>

\* URLQueue.get(timeout): the call, up to its return or its first sleep
QGetTimeout ==
    /\ qget.pc = "idle"
    /\ GetRound(now, GetTimeout)
    /\ UNCHANGED <<now, qadd, bucketVars, limiterVars, storeVars, orchVars, seen, qcfg,
                   accepted, qcalls, robotsVars, proxyVars>>

\* URLQueue.get(timeout): asyncio.sleep(0.1) is over; the next round
QGetWake ==
    /\ qget.pc = "sleeping"
    /\ now >= qget.wake
    /\ GetRound(qget.start, qget.timeout)
    /\ UNCHANGED <<now, qadd, bucketVars, limiterVars, storeVars, orchVars, seen, qcfg,
                   accepted, qcalls, robotsVars, proxyVars>>

\* time passes
QTick ==
    /\ now < Epoch + MaxQueueTime
    /\ now' = now + 1
    /\ UNCHANGED <<bucketVars, limiterVars, queueVars, storeVars, orchVars, robotsVars,
                   proxyVars>>

\* URLQueue.get() is called: "async with self._lock" (queue_manager.py:180) waits
\* while an add holds the lock, and otherwise the round runs
QGetCall ==
    /\ qget.pc = "idle"
    /\ IF qadd.pc # "idle"
       THEN /\ qget' = [NoGetter EXCEPT !.pc = "lock_wait", !.start = now]
            /\ UNCHANGED <<queue, qstats, qOp>>
       ELSE GetRound(now, NoTimeout)
    /\ UNCHANGED <<now, qadd, bucketVars, limiterVars, storeVars, orchVars, seen, qcfg,
                   accepted, qcalls, robotsVars, proxyVars>>

\* the add has left "async with self._lock": the waiting get takes the lock
QGetLockGranted ==
    /\ qget.pc = "lock_wait"
    /\ qadd.pc = "idle"
    /\ GetRound(qget.start, NoTimeout)
    /\ UNCHANGED <<now, qadd, bucketVars, limiterVars, storeVars, orchVars, seen, qcfg,
                   accepted, qcalls, robotsVars, proxyVars>>

\* URLQueue.peek()
QPeek ==
    /\ qOp' = [NoQOp EXCEPT !.kind = "peek", !.ret = (queue # <<>>)]
    /\ UNCHANGED <<now, qget, qadd, bucketVars, limiterVars, storeVars, orchVars, queue, seen, qstats, qcfg, accepted, qcalls, robotsVars, proxyVars>>

\* URLQueue.clear()
QClear ==
    /\ queue' = <<>>
    /\ qOp' = [NoQOp EXCEPT !.kind = "clear"]
    /\ UNCHANGED <<now, qget, qadd, bucketVars, limiterVars, storeVars, orchVars, seen, qstats, qcfg, accepted, qcalls, robotsVars, proxyVars>>

\* URLQueue.reset_seen()
QResetSeen ==
    /\ qcalls.reset_seen = 0
    /\ seen' = {}
    /\ qOp' = [NoQOp EXCEPT !.kind = "reset_seen"]
    /\ qcalls' = [qcalls EXCEPT !.reset_seen = @ + 1]
    /\ UNCHANGED <<now, qget, qadd, bucketVars, limiterVars, storeVars, orchVars, queue, qstats, qcfg, accepted, robotsVars, proxyVars>>


(***************************************************************************)
(* RawStorage (raw_storage.py:36-265). _url_hash is taken as one hash per  *)
(* URL, so a URL stands for its url_hash and for its file path. Each       *)
(* await of a file operation is a step of its own.                         *)
(***************************************************************************)
StoreTasks == 1..NumStoreTasks
StoreUrls == 1..NumStoreUrls
Contents == {"c1", "c2"}

\* no record under a url_hash
NoEntry == [content |-> "none", stored_at |-> 0]
Absent == "absent"
Partial == "partial"
EmptyIndex == [u \in StoreUrls |-> NoEntry]

\* metadata.json: not there, just truncated by open(.., "w"), or holding an index
NoFile == [state |-> "no_file", index |-> EmptyIndex]
Truncated == [state |-> "truncated", index |-> EmptyIndex]
Persisted(idx) == [state |-> "written", index |-> idx]

NoCall == [op |-> "none", url |-> 0, content |-> "none"]
NoLocal == [orphan |-> FALSE, snap |-> EmptyIndex, stored |-> NoEntry]
NoRet == [op |-> "none", url |-> 0, ret |-> "none", disk |-> {}, again |-> FALSE]

\* StoredContent (raw_storage.py:142-150) of a save of content c at time t: url,
\* url_hash and filename follow from the URL, size_bytes from the content, and
\* content_type and status_code are the same in every call
StoredContent(c, t) == [content |-> c, stored_at |-> t]

\* a write that leaves the file as open(.., "w") made it
WriteNothing(fs, u, c) == fs

\* f.write(content) into the file open(filepath, "w") truncated (raw_storage.py:138-139)
WriteContent(fs, u, c) == [fs EXCEPT ![u] = c]

\* the content files on disk
PresentFiles(fs) == {u \in StoreUrls : fs[u] # Absent}

\* json.loads(content) if content else {} on what metadata.json holds
LoadIndex(dm) == IF dm.state = "written" THEN dm.index ELSE EmptyIndex

\* what _ensure_initialized leaves in self._metadata (raw_storage.py:70-82)
EnsureInitialized == IF initialized THEN metadata ELSE LoadIndex(diskMeta)

\* what exists(u) answers when called now (raw_storage.py:109-111)
Exists(u) == EnsureInitialized[u] # NoEntry

\* what load(u) answers when called now (raw_storage.py:168-181)
Load(u) ==
    IF EnsureInitialized[u] = NoEntry \/ files[u] = Absent THEN "none" ELSE files[u]


\* a store no specification but SpecStore touches
StoreIdle ==
    /\ initialized = FALSE
    /\ metadata = EmptyIndex
    /\ diskMeta = NoFile
    /\ files = [u \in StoreUrls |-> Absent]
    /\ spc = [t \in StoreTasks |-> "idle"]
    /\ sargs = [t \in StoreTasks |-> NoCall]
    /\ slocal = [t \in StoreTasks |-> NoLocal]
    /\ sret = NoRet
    /\ scalls = 0

\* RawStorage.__init__ on an empty directory, or on one an earlier session left
\* with URL 1 stored
StoreInit ==
    /\ initialized = FALSE
    /\ metadata = EmptyIndex
    /\ \/ diskMeta = NoFile /\ files = [u \in StoreUrls |-> Absent]
       \/ /\ diskMeta = Persisted([EmptyIndex EXCEPT ![1] = StoredContent("c1", Epoch - 1)])
          /\ files = [u \in StoreUrls |-> IF u = 1 THEN "c1" ELSE Absent]
    /\ spc = [t \in StoreTasks |-> "idle"]
    /\ sargs = [t \in StoreTasks |-> NoCall]
    /\ slocal = [t \in StoreTasks |-> NoLocal]
    /\ sret = NoRet
    /\ scalls = 0

\* a call returns; no call changes a content file in the step it returns in
StoreReturn(t, call, ret) ==
    /\ spc' = [spc EXCEPT ![t] = "idle"]
    /\ sargs' = [sargs EXCEPT ![t] = NoCall]
    /\ slocal' = [slocal EXCEPT ![t] = NoLocal]
    /\ sret' = [op |-> call.op, url |-> call.url, ret |-> ret,
                disk |-> PresentFiles(files),
                again |-> /\ call.op = "save" /\ sret.op = "save"
                          /\ sret.url = call.url /\ sret.ret.content = call.content]

\* a call goes on to its next await
StoreGoto(t, call, pc) ==
    /\ spc' = [spc EXCEPT ![t] = pc]
    /\ sargs' = [sargs EXCEPT ![t] = call]
    /\ UNCHANGED sret

\* a delete that unlinks the file and keeps the entry
DeleteFileOnly(t, call, md) ==
    /\ metadata' = md
    /\ files' = [files EXCEPT ![call.url] = Absent]
    /\ slocal' = [x \in StoreTasks |->
                    IF x # t /\ spc[x] = "file_write" /\ sargs[x].url = call.url
                    THEN [slocal[x] EXCEPT !.orphan = TRUE]
                    ELSE IF x = t THEN NoLocal ELSE slocal[x]]
    /\ StoreGoto(t, call, "meta_open")

\* delete (raw_storage.py:217-224): unlink the file and drop the entry, with no
\* await in between; a writer holding the file open keeps an unlinked file
DeleteEntry(t, call, md) ==
    /\ metadata' = [md EXCEPT ![call.url] = NoEntry]
    /\ files' = [files EXCEPT ![call.url] = Absent]
    /\ slocal' = [x \in StoreTasks |->
                    IF x # t /\ spc[x] = "file_write" /\ sargs[x].url = call.url
                    THEN [slocal[x] EXCEPT !.orphan = TRUE]
                    ELSE IF x = t THEN NoLocal ELSE slocal[x]]
    /\ StoreGoto(t, call, "meta_open")

\* the body of exists / save / load / delete after _ensure_initialized, up to
\* its first await; md is self._metadata as _ensure_initialized left it
StoreBody(t, call, md) ==
    CASE call.op = "exists" ->
            /\ metadata' = md
            /\ StoreReturn(t, call, IF md[call.url] # NoEntry THEN "true" ELSE "false")
            /\ UNCHANGED files
      [] call.op = "save" ->
            /\ metadata' = md
            /\ StoreGoto(t, call, "file_open")
            /\ UNCHANGED <<files, slocal>>
      [] call.op = "load" ->
            /\ metadata' = md
            /\ IF md[call.url] = NoEntry \/ files[call.url] = Absent
               THEN StoreReturn(t, call, "none")
               ELSE StoreGoto(t, call, "load_read") /\ UNCHANGED slocal
            /\ UNCHANGED files
      [] call.op = "delete" ->
            IF md[call.url] = NoEntry
            THEN /\ metadata' = md
                 /\ StoreReturn(t, call, "false")
                 /\ UNCHANGED files
            ELSE DeleteEntry(t, call, md)

\* a caller starts one of the calls ops on one of the URLs urls:
\* _ensure_initialized (raw_storage.py:70-82), then the body unless the index
\* has to be read
StoreCall(t, ops, urls) ==
    /\ spc[t] = "idle"
    /\ scalls < MaxStoreCalls
    /\ scalls' = scalls + 1
    /\ \E op \in ops, u \in urls, c \in Contents :
        LET call == [op |-> op, url |-> u,
                     content |-> IF op = "save" THEN c ELSE "none"]
        IN  /\ (op # "save" => c = "c1")
            /\ IF initialized
               THEN StoreBody(t, call, metadata) /\ UNCHANGED initialized
               ELSE IF diskMeta # NoFile
               THEN /\ StoreGoto(t, call, "init_read")
                    /\ UNCHANGED <<initialized, metadata, files, slocal>>
               ELSE initialized' = TRUE /\ StoreBody(t, call, metadata)
    /\ UNCHANGED <<now, bucketVars, limiterVars, queueVars, orchVars, diskMeta, robotsVars, proxyVars>>

\* a caller starts exists / save / load / delete
SBegin(t) == StoreCall(t, {"exists", "save", "load", "delete"}, StoreUrls)

\* a worker of the orchestrator starts one of the calls _process_url makes
\* (orchestrator.py:205-249): exists, load or save
SWorkerCall(t) == StoreCall(t, {"exists", "save", "load"}, StoreUrls)

\* worker t saves its own URL, distinct from every other worker's
SSaveOwn(t) == StoreCall(t, {"save"}, {t} \cap StoreUrls)

\* a call made when no other call on the store is under way
SBeginAlone(t) ==
    /\ \A x \in StoreTasks : spc[x] = "idle"
    /\ SBegin(t)

\* time passes
STick ==
    /\ now < Epoch + MaxStoreTime
    /\ now' = now + 1
    /\ UNCHANGED <<bucketVars, limiterVars, queueVars, storeVars, orchVars, robotsVars,
                   proxyVars>>

\* _ensure_initialized: metadata.json has been read; self._metadata is replaced
SInitRead(t) ==
    /\ spc[t] = "init_read"
    /\ initialized' = TRUE
    /\ StoreBody(t, sargs[t], LoadIndex(diskMeta))
    /\ UNCHANGED <<now, bucketVars, limiterVars, queueVars, orchVars, diskMeta, scalls, robotsVars, proxyVars>>

\* save: aiofiles.open(filepath, "w") creates or truncates the content file
SFileOpen(t) ==
    /\ spc[t] = "file_open"
    /\ files' = [files EXCEPT ![sargs[t].url] = Partial]
    /\ slocal' = [slocal EXCEPT ![t].orphan = FALSE]
    /\ StoreGoto(t, sargs[t], "file_write")
    /\ UNCHANGED <<now, bucketVars, limiterVars, queueVars, orchVars, initialized, metadata,
                   diskMeta, scalls, robotsVars, proxyVars>>

\* save: the content is written and the file closed; then, with no await in
\* between, self._metadata[url_hash] = stored.to_dict()
SFileWrite(t) ==
    /\ spc[t] = "file_write"
    /\ files' = IF slocal[t].orphan THEN files
                ELSE WriteContent(files, sargs[t].url, sargs[t].content)
    /\ slocal' = [slocal EXCEPT ![t].stored = StoredContent(sargs[t].content, now)]
    /\ metadata' = [metadata EXCEPT ![sargs[t].url] = slocal'[t].stored]
    /\ StoreGoto(t, sargs[t], "meta_open")
    /\ UNCHANGED <<now, bucketVars, limiterVars, queueVars, orchVars, initialized, diskMeta,
                   scalls, robotsVars, proxyVars>>

\* _save_metadata: aiofiles.open(self._metadata_file, "w") truncates metadata.json
SMetaOpen(t) ==
    /\ spc[t] = "meta_open"
    /\ diskMeta' = Truncated
    /\ StoreGoto(t, sargs[t], "meta_dump")
    /\ UNCHANGED <<now, bucketVars, limiterVars, queueVars, orchVars, initialized, metadata,
                   files, slocal, scalls, robotsVars, proxyVars>>

\* _save_metadata: json.dumps(self._metadata) is evaluated and handed to f.write
SMetaDump(t) ==
    /\ spc[t] = "meta_dump"
    /\ slocal' = [slocal EXCEPT ![t].snap = metadata]
    /\ StoreGoto(t, sargs[t], "meta_land")
    /\ UNCHANGED <<now, bucketVars, limiterVars, queueVars, orchVars, initialized, metadata,
                   diskMeta, files, scalls, robotsVars, proxyVars>>

\* _save_metadata: the write reaches metadata.json; delete returns True, save
\* returns the record it made
SMetaLand(t) ==
    /\ spc[t] = "meta_land"
    /\ diskMeta' = Persisted(slocal[t].snap)
    /\ StoreReturn(t, sargs[t], IF sargs[t].op = "delete" THEN "true" ELSE slocal[t].stored)
    /\ UNCHANGED <<now, bucketVars, limiterVars, queueVars, orchVars, initialized, metadata,
                   files, scalls, robotsVars, proxyVars>>

\* load: the content file is read
SLoadRead(t) ==
    /\ spc[t] = "load_read"
    /\ StoreReturn(t, sargs[t], files[sargs[t].url])
    /\ UNCHANGED <<now, bucketVars, limiterVars, queueVars, orchVars, initialized, metadata,
                   diskMeta, files, scalls, robotsVars, proxyVars>>


(***************************************************************************)
(* Orchestrator (orchestrator.py:101-412). Its queue is the URLQueue       *)
(* above, its limiter the TokenBucketRateLimiter above (acquire eventually *)
(* returns; the clock stands still), its store is kept as the set of URLs  *)
(* the index holds. All URLs are of one domain.                            *)
(***************************************************************************)
Workers == 1..NumWorkers

\* the URLs handed to run and run_single; robots disallows "/a"
OrchUrls == {<<"a">>, <<"a", "a">>, <<"/", "a">>}

\* the urls arguments of run
RunLists ==
    {<<<<"a">>>>, <<<<"a", "a">>>>, <<<<"/", "a">>>>,
     <<<<"a">>, <<"a", "a">>>>, <<<<"/", "a">>, <<"a">>>>}

\* the one domain of OrchUrls
TheDomain == CHOOSE d \in Domains : \A e \in Domains : d <= e

\* a worker's locals before it holds a URL. stored, nStatic, nDynamic, haltedFor,
\* saveFailed and parser record what _process_url met; returned, success and
\* data are its result
NoWork == [url |-> <<>>, single |-> FALSE, stored |-> FALSE, cached |-> FALSE,
           static |-> "none", nStatic |-> 0, nDynamic |-> 0, haltedFor |-> 0,
           escalated |-> FALSE, saveFailed |-> FALSE, parser |-> "none",
           returned |-> "none", success |-> FALSE, data |-> "none"]

\* how a call of the extractor handed to the Orchestrator ends
ParserOutcomes == {"ok", "raised"}

\* an extractor call whose exception leaves _process_url
ParserUnguarded(p) == p # "raised"

\* the extractor is called under try / except Exception, which logs and goes on
\* (orchestrator.py:219-223, 256-261): whether _process_url goes on to its
\* success result
ParserGuarded(p) == TRUE

\* data = {} and, when the extractor returns, what it returned, cleaned
ParsedData(p) == IF p = "ok" THEN "parsed" ELSE "empty"

\* ScraperStats()
NewStats == [urls_processed |-> 0, urls_successful |-> 0, urls_failed |-> 0,
             http_fetches |-> 0, browser_fetches |-> 0]

NoRun == [state |-> "idle", n |-> 0, stop |-> FALSE, allStored |-> FALSE,
          fetches |-> 0, cached |-> 0, added |-> 0, ever |-> FALSE, qAtStop |-> 0]

NoBrowser == [fetcher |-> FALSE, running |-> FALSE, started |-> 0, closed |-> 0]

\* an orchestrator no specification but Spec touches
OrchIdle ==
    /\ run = NoRun
    /\ env = [driver_ok |-> TRUE]
    /\ ostore = {}
    /\ browser = NoBrowser
    /\ stats = NewStats
    /\ results = <<>>
    /\ opc = [w \in Workers |-> "off"]
    /\ ow = [w \in Workers |-> NoWork]

\* Orchestrator.__init__, with the driver installed or not, on a cold store or
\* on one that holds "a" and "aa"
OrchInit ==
    /\ run = NoRun
    /\ env \in [driver_ok : BOOLEAN]
    /\ ostore \in {{}, {<<"a">>, <<"a", "a">>}}
    /\ browser = NoBrowser
    /\ stats = NewStats
    /\ results = <<>>
    /\ opc = [w \in Workers |-> "off"]
    /\ ow = [w \in Workers |-> NoWork]

\* Orchestrator's queue: URLQueue(robots_parser=self._robots), filter_robots=True,
\* with config.respect_robots_txt at its default
OrchQueueInit ==
    /\ queue = <<>>
    /\ seen = {}
    /\ qstats = [added |-> 0, processed |-> 0, filtered |-> 0, duplicates |-> 0]
    /\ qcfg = [filter_robots |-> TRUE, respect_robots_txt |-> TRUE, rules |-> {<<"/">>},
               max_size |-> MaxSize]
    /\ qOp = NoQOp
    /\ accepted = [u \in UrlStrings |-> 0]
    /\ qcalls = [add |-> 0, reset_seen |-> 0]
    /\ qget = NoGetter
    /\ qadd = NoAdder

RECURSIVE AddMany(_, _, _, _, _)
\* URLQueue.add_many(urls, priority): <<queue, seen, qstats, count>> after adding
\* urls[i..] one by one
AddMany(q, sn, qs, urls, i) ==
    IF i > Len(urls) THEN <<q, sn, qs, 0>>
    ELSE LET u == urls[i]
             out == AddOutcome(q, sn, qcfg, u)
             q2 == IF out = "added" THEN HeapPush(q, [priority |-> 2, url |-> u, seq |-> qs.added])
                   ELSE q
             sn2 == IF out = "added" THEN sn \cup {UrlHash(u)} ELSE sn
             qs2 == CASE out = "added" -> [qs EXCEPT !.added = @ + 1]
                      [] out = "duplicate" -> [qs EXCEPT !.duplicates = @ + 1]
                      [] out = "filtered" -> [qs EXCEPT !.filtered = @ + 1]
                      [] OTHER -> qs
             rest == AddMany(q2, sn2, qs2, urls, i + 1)
         IN  <<rest[1], rest[2], rest[3], rest[4] + (IF out = "added" THEN 1 ELSE 0)>>

\* no run and no run_single is under way
Quiet == run.state \in {"idle", "returned", "single"} /\ \A w \in Workers : opc[w] = "off"

\* Orchestrator.run up to the start of its workers (orchestrator.py:325-354)
ORun ==
    /\ Quiet
    /\ run.n < MaxRuns
    /\ \E urls \in RunLists :
        LET am == AddMany(queue, seen, qstats, urls, 1)
        IN  /\ queue' = am[1]
            /\ seen' = am[2]
            /\ qstats' = am[3]
            /\ run' = [state |-> IF am[4] = 0 THEN "returned" ELSE "running",
                       n |-> run.n + 1, stop |-> FALSE,
                       allStored |-> \A i \in 1..Len(am[1]) : am[1][i].url \in ostore,
                       fetches |-> 0, cached |-> 0, added |-> am[4],
                       ever |-> run.ever, qAtStop |-> 0]
            /\ opc' = [w \in Workers |-> IF am[4] = 0 THEN "off" ELSE "loop"]
    /\ stats' = NewStats
    /\ results' = <<>>
    /\ ow' = [w \in Workers |-> NoWork]
    /\ browser' = [browser EXCEPT !.started = 0, !.closed = 0]
    /\ UNCHANGED <<now, qget, qadd, bucketVars, limiterVars, storeVars, qcfg, qOp, accepted, qcalls,
                   env, ostore, robotsVars, proxyVars>>

\* Orchestrator.stop
OStop ==
    /\ run.state = "running"
    /\ ~run.stop
    /\ run' = [run EXCEPT !.stop = TRUE, !.ever = TRUE, !.qAtStop = Len(queue)]
    /\ UNCHANGED <<now, bucketVars, limiterVars, storeVars, queueVars,
                   env, ostore, browser, stats, results, opc, ow, robotsVars, proxyVars>>

\* a worker loop that does not look at the stop signal
WorkerLeavesWhenEmpty(stop, q) == q = <<>>

\* _worker: "while not self._stop_event.is_set()" fails, or get(timeout=1.0)
\* returned None on an empty queue
WorkerLeaves(stop, q) == stop \/ q = <<>>

\* _worker: the loop test and self._queue.get(timeout=1.0); the worker leaves on
\* the stop signal, or when get timed out on an empty queue
OGet(w) ==
    /\ opc[w] = "loop"
    /\ IF WorkerLeaves(run.stop, queue)
       THEN /\ opc' = [opc EXCEPT ![w] = "exited"]
            /\ ow' = [ow EXCEPT ![w] = NoWork]
            /\ UNCHANGED <<queue, qstats>>
       ELSE /\ queue' = HeapPop(queue)[1]
            /\ qstats' = [qstats EXCEPT !.processed = @ + 1]
            /\ ow' = [ow EXCEPT ![w] = [NoWork EXCEPT !.url = HeapPop(queue)[2].url]]
            /\ opc' = [opc EXCEPT ![w] = "acquire"]
    /\ UNCHANGED <<now, qget, qadd, bucketVars, limiterVars, storeVars, seen, qcfg, qOp, accepted,
                   qcalls, run, env, ostore, browser, stats, results, robotsVars, proxyVars>>

\* _close_browser
CloseBrowser(b) ==
    IF b.fetcher
    THEN [b EXCEPT !.fetcher = FALSE, !.running = FALSE,
                   !.closed = @ + (IF b.running THEN 1 ELSE 0)]
    ELSE b

\* run after asyncio.gather: _close_browser, and the results are returned
ORunReturn ==
    /\ run.state = "running"
    /\ \A w \in Workers : opc[w] = "exited"
    /\ run' = [run EXCEPT !.state = "returned"]
    /\ opc' = [w \in Workers |-> "off"]
    /\ browser' = CloseBrowser(browser)
    /\ UNCHANGED <<now, bucketVars, limiterVars, storeVars, queueVars,
                   env, ostore, stats, results, ow, robotsVars, proxyVars>>


\* a worker that counts the URL but does not append its result
FinishNoResult(w, wk, st, returned, success) ==
    /\ ow' = [ow EXCEPT ![w] = [wk EXCEPT !.returned = returned, !.success = success]]
    /\ opc' = [opc EXCEPT ![w] = IF ow[w].single THEN "close_browser" ELSE "loop"]
    /\ stats' = IF ow[w].single THEN st ELSE [st EXCEPT !.urls_processed = @ + 1]
    /\ UNCHANGED results

\* a worker that appends the result and counts it as processed only
FinishOutcomeUncounted(w, wk, st, returned, success) ==
    /\ ow' = [ow EXCEPT ![w] = [wk EXCEPT !.returned = returned, !.success = success]]
    /\ IF ow[w].single
       THEN /\ opc' = [opc EXCEPT ![w] = "close_browser"]
            /\ stats' = st
            /\ UNCHANGED results
       ELSE /\ opc' = [opc EXCEPT ![w] = "loop"]
            /\ results' = Append(results, [url |-> ow[w].url, success |-> success])
            /\ stats' = [st EXCEPT !.urls_processed = @ + 1]

\* _process_url ends for worker w, whose locals are wk, with the given result;
\* st holds the stats so far. In _worker the result is appended and counted with no await in between
\* (orchestrator.py:298-306); run_single goes on to _close_browser.
Finish(w, wk, st, returned, success) ==
    /\ ow' = [ow EXCEPT ![w] = [wk EXCEPT !.returned = returned, !.success = success]]
    /\ IF ow[w].single
       THEN /\ opc' = [opc EXCEPT ![w] = "close_browser"]
            /\ stats' = st
            /\ UNCHANGED results
       ELSE /\ opc' = [opc EXCEPT ![w] = "loop"]
            /\ results' = Append(results, [url |-> ow[w].url, success |-> success])
            /\ stats' = [st EXCEPT !.urls_processed = @ + 1,
                                   !.urls_successful = @ + (IF success THEN 1 ELSE 0),
                                   !.urls_failed = @ + (IF success THEN 0 ELSE 1)]

\* _fetch_url that counts a blocked static fetch as an HTTP fetch and returns it
StaticBlockedNoEscalation(w, status) ==
    /\ Finish(w, [ow[w] EXCEPT !.nStatic = @ + 1, !.static = status],
              [stats EXCEPT !.http_fetches = @ + 1], "static", FALSE)
    /\ UNCHANGED domains

\* _fetch_url on a static result with status 403 or 429 (orchestrator.py:191-197):
\* halt_domain(url, reason=str(status)), then on to the browser
StaticBlocked(w, status) ==
    /\ domains' = HaltDomain(domains, TheDomain, status, now)
    /\ ow' = [ow EXCEPT ![w].nStatic = @ + 1, ![w].static = status,
                        ![w].escalated = TRUE,
                        ![w].haltedFor =
                            HaltDomain(domains, TheDomain, status, now)[TheDomain].halted_until - now]
    /\ opc' = [opc EXCEPT ![w] = "init_browser"]
    /\ UNCHANGED <<stats, results>>

\* _process_url: await self._rate_limiter.acquire(url) returns (what acquire
\* does to the limiter is followed in SpecLimiter)
OAcquire(w) ==
    /\ opc[w] = "acquire"
    /\ opc' = [opc EXCEPT ![w] = "exists"]
    /\ UNCHANGED <<now, bucketVars, limiterVars, storeVars, queueVars,
                   run, env, ostore, browser, stats, results, ow, robotsVars, proxyVars>>

\* a store check that finds nothing
StorageExistsNever(st, u) == FALSE

\* RawStorage.exists(url) on the store st
StorageExists(st, u) == u \in st

\* _process_url: if await self._storage.exists(url); stored remembers what the
\* index held at that moment
OExists(w) ==
    /\ opc[w] = "exists"
    /\ IF StorageExists(ostore, ow[w].url)
       THEN /\ ow' = [ow EXCEPT ![w].cached = TRUE, ![w].stored = ow[w].url \in ostore]
            /\ opc' = [opc EXCEPT ![w] = "load"]
       ELSE /\ ow' = [ow EXCEPT ![w].stored = ow[w].url \in ostore]
            /\ opc' = [opc EXCEPT ![w] = "static"]
    /\ UNCHANGED <<now, bucketVars, limiterVars, storeVars, queueVars,
                   run, env, ostore, browser, stats, results, robotsVars, proxyVars>>

\* _process_url: the stored content is loaded, handed to the extractor, and
\* returned as a success
OLoad(w) ==
    /\ opc[w] = "load"
    /\ \E p \in ParserOutcomes :
           Finish(w, [ow[w] EXCEPT !.parser = p, !.data = ParsedData(p)], stats,
                  IF ParserGuarded(p) THEN "cached" ELSE "raised", ParserGuarded(p))
    /\ run' = [run EXCEPT !.cached = @ + (IF ow[w].single THEN 0 ELSE 1)]
    /\ UNCHANGED <<now, bucketVars, limiterVars, storeVars, queueVars,
                   env, ostore, browser, robotsVars, proxyVars>>

\* _fetch_url: the static fetch and what follows it up to the next await
\* (orchestrator.py:176-203). ok: 2xx and quick_check false; ok_js: 2xx and
\* quick_check true; error: any other status or a transport error
OStatic(w) ==
    /\ opc[w] = "static"
    /\ run' = [run EXCEPT !.fetches = @ + 1]
    /\ \E outcome \in {"ok", "ok_js", "403", "429", "error"} :
        CASE outcome = "ok" ->
                /\ ow' = [ow EXCEPT ![w].nStatic = @ + 1, ![w].static = outcome]
                /\ stats' = [stats EXCEPT !.http_fetches = @ + 1]
                /\ opc' = [opc EXCEPT ![w] = "save"]
                /\ UNCHANGED <<domains, results>>
          [] outcome = "ok_js" ->
                /\ ow' = [ow EXCEPT ![w].nStatic = @ + 1, ![w].static = outcome,
                                    ![w].escalated = TRUE]
                /\ opc' = [opc EXCEPT ![w] = "init_browser"]
                /\ UNCHANGED <<domains, stats, results>>
          [] outcome \in {"403", "429"} -> StaticBlocked(w, outcome)
          [] outcome = "error" ->
                /\ Finish(w, [ow[w] EXCEPT !.nStatic = @ + 1, !.static = outcome],
                          [stats EXCEPT !.http_fetches = @ + 1], "static", FALSE)
                /\ UNCHANGED domains
    /\ UNCHANGED <<now, bucketVars, storeVars, queueVars, lpc, ldom, lnow, lwake, ltodo,
                   lastReq, lastReturn, retGap, haltHist, env, ostore, browser, robotsVars, proxyVars>>

\* _init_browser: the fetcher is created when there is none, and started
OInitBrowser(w) ==
    /\ opc[w] = "init_browser"
    /\ IF browser.fetcher
       THEN /\ opc' = [opc EXCEPT ![w] = "dynamic"]
            /\ UNCHANGED browser
       ELSE /\ browser' = [browser EXCEPT !.fetcher = TRUE]
            /\ opc' = [opc EXCEPT ![w] = "browser_start"]
    /\ UNCHANGED <<now, bucketVars, limiterVars, storeVars, queueVars,
                   run, env, ostore, stats, results, ow, robotsVars, proxyVars>>

\* a start failure that leaves _process_url and ends the worker task
StartFailedUncaught(w) ==
    /\ opc' = [opc EXCEPT ![w] = "exited"]
    /\ ow' = [ow EXCEPT ![w].returned = "raised"]
    /\ UNCHANGED <<stats, results, browser>>

\* the ImportError of BrowserFetcher.start ends _process_url in its except
\* branch (orchestrator.py:276-282): the URL gets a failure result
StartFailed(w) ==
    /\ Finish(w, ow[w], stats, "raised", FALSE)
    /\ UNCHANGED browser

\* BrowserFetcher.start: the driver is launched, or ImportError is raised when
\* it is not installed; the error ends _process_url in its except branch
OBrowserStart(w) ==
    /\ opc[w] = "browser_start"
    /\ IF env.driver_ok
       THEN /\ browser' = [browser EXCEPT !.running = TRUE, !.started = @ + 1]
            /\ opc' = [opc EXCEPT ![w] = "dynamic"]
            /\ UNCHANGED <<stats, results, ow>>
       ELSE StartFailed(w)
    /\ UNCHANGED <<now, bucketVars, limiterVars, storeVars, queueVars,
                   run, env, ostore, robotsVars, proxyVars>>

\* BrowserFetcher.fetch: it starts the driver itself when none is running, else
\* loads the page; browser_fetches is counted when fetch has returned
OBrowserFetch(w) ==
    /\ opc[w] = "dynamic"
    /\ IF ~browser.running
       THEN /\ opc' = [opc EXCEPT ![w] = "browser_start"]
            /\ UNCHANGED <<run, stats, results, ow>>
       ELSE /\ run' = [run EXCEPT !.fetches = @ + 1]
            /\ \E ok \in BOOLEAN :
                IF ok
                THEN /\ ow' = [ow EXCEPT ![w].nDynamic = @ + 1]
                     /\ stats' = [stats EXCEPT !.browser_fetches = @ + 1]
                     /\ opc' = [opc EXCEPT ![w] = "save"]
                     /\ UNCHANGED <<results>>
                ELSE Finish(w, [ow[w] EXCEPT !.nDynamic = @ + 1],
                            [stats EXCEPT !.browser_fetches = @ + 1], "dynamic", FALSE)
    /\ UNCHANGED <<now, bucketVars, limiterVars, storeVars, queueVars,
                   env, ostore, browser, robotsVars, proxyVars>>

\* _process_url after a successful fetch (orchestrator.py:244-282): storage.save,
\* the extractor, report_success, and the success result; an exception raised
\* by save (the disk is full, the directory is not writable) ends _process_url
\* in its except branch
OSave(w) ==
    /\ opc[w] = "save"
    /\ \E saved \in BOOLEAN, p \in ParserOutcomes :
        IF ~saved
        THEN /\ p = "ok"
             /\ Finish(w, [ow[w] EXCEPT !.saveFailed = TRUE], stats, "save_raised", FALSE)
             /\ UNCHANGED <<ostore, domains>>
        ELSE /\ ostore' = ostore \cup {ow[w].url}
             /\ IF ParserGuarded(p)
                THEN /\ domains' = ReportSuccess(domains, TheDomain, now)
                     /\ Finish(w, [ow[w] EXCEPT !.parser = p, !.data = ParsedData(p)], stats,
                               IF ow[w].nDynamic > 0 THEN "dynamic" ELSE "static", TRUE)
                ELSE /\ Finish(w, [ow[w] EXCEPT !.parser = p], stats, "raised", FALSE)
                     /\ UNCHANGED domains
    /\ UNCHANGED <<now, bucketVars, storeVars, queueVars, lpc, ldom, lnow, lwake, ltodo,
                   lastReq, lastReturn, retGap, haltHist, run, env, browser, robotsVars, proxyVars>>

\* run_single over a URL robots disallows
RunSingleBlocked(u) ==
    /\ ow' = [w \in Workers |->
                IF w = 1 THEN [NoWork EXCEPT !.url = u, !.single = TRUE, !.returned = "robots"]
                ELSE NoWork]
    /\ UNCHANGED opc

\* run_single over a URL robots permits: on to _process_url
RunSingleProcess(u) ==
    /\ opc' = [opc EXCEPT ![1] = "acquire"]
    /\ ow' = [w \in Workers |->
                IF w = 1 THEN [NoWork EXCEPT !.url = u, !.single = TRUE] ELSE NoWork]

\* run_single up to _process_url: the robots check (orchestrator.py:386-396)
RunSingleEnter(u) ==
    IF ~CanFetch(qcfg, u) THEN RunSingleBlocked(u) ELSE RunSingleProcess(u)

\* Orchestrator.run_single(url)
ORunSingle ==
    /\ Quiet
    /\ run.n < MaxRuns
    /\ run' = [run EXCEPT !.state = "single", !.n = @ + 1]
    /\ \E u \in OrchUrls : RunSingleEnter(u)
    /\ browser' = [browser EXCEPT !.started = 0, !.closed = 0]
    /\ UNCHANGED <<now, bucketVars, limiterVars, storeVars, queueVars,
                   env, ostore, stats, results, robotsVars, proxyVars>>

\* run_single: await self._close_browser() and the result is returned
OCloseBrowser(w) ==
    /\ opc[w] = "close_browser"
    /\ browser' = CloseBrowser(browser)
    /\ opc' = [opc EXCEPT ![w] = "off"]
    /\ UNCHANGED <<now, bucketVars, limiterVars, storeVars, queueVars,
                   run, env, ostore, stats, results, ow, robotsVars, proxyVars>>

(***************************************************************************)
(* RobotsParser (safety/robots_parser.py)                                  *)
(***************************************************************************)
NumCallers == 2
MaxResets == 1
MaxRobotsTime == 2

\* config.robots_cache_ttl, in ticks
RobotsCacheTtl == 1

RCallers == 1..NumCallers

\* _get_domain(url): the netloc of the URL; the callers ask about one site
Origins == {"x"}

\* the path of the URL that RobotFileParser.can_fetch matches
RobotsPaths == {<<"/">>, <<"/", "a">>}

\* one line of a robots.txt: "key: value"
Line(k, v) == [k |-> k, v |-> v]

\* "User-agent: *\nDisallow: /"
DenyAllText == <<Line("User-agent", <<"*">>), Line("Disallow", <<"/">>)>>

\* ""
EmptyText == <<>>

\* the bodies a server answers with
RobotsBodies ==
    {<<Line("User-agent", <<"*">>), Line("Disallow", <<"/", "a">>),
       Line("Crawl-delay", <<"1">>)>>}

\* the status codes a server answers with
RobotsStatuses == {200, 404, 403, 401}

\* what client.get(robots_url) does: a response, or httpx.RequestError
TransportError == [kind |-> "error", status |-> 0, body |-> EmptyText]

Responses ==
    {[kind |-> "status", status |-> 200, body |-> b] : b \in RobotsBodies}
        \cup {[kind |-> "status", status |-> st, body |-> b] :
                  st \in RobotsStatuses \ {200}, b \in RobotsBodies}
        \cup {TransportError}

\* _fetch_robots_txt that takes every failure for "no robots.txt"
FetchRobotsTxtAllowOnError(resp) ==
    IF resp.kind = "status" /\ resp.status = 200 THEN resp.body ELSE EmptyText

\* _fetch_robots_txt that allows everything on 404 only
FetchRobotsTxtOnly404(resp) ==
    IF resp.kind = "error" THEN DenyAllText
    ELSE IF resp.status = 200 THEN resp.body
    ELSE IF resp.status = 404 THEN EmptyText
    ELSE DenyAllText

\* _fetch_robots_txt: the content for a response
FetchRobotsTxt(resp) ==
    IF resp.kind = "error" THEN DenyAllText
    ELSE IF resp.status = 200 THEN resp.body
    ELSE IF resp.status \in {404, 403} THEN EmptyText
    ELSE DenyAllText

\* RobotFileParser.parse(content.split("\n")): the Disallow paths and the crawl delay
\* (<<>>: none) of the "*" entry
ParseRobots(text) ==
    [rules |-> {text[i].v : i \in {j \in DOMAIN text : text[j].k = "Disallow"}},
     delay |-> IF \E i \in DOMAIN text : text[i].k = "Crawl-delay"
               THEN text[CHOOSE i \in DOMAIN text : text[i].k = "Crawl-delay"].v
               ELSE <<>>]

\* no parser in memory; with the parser, history: the response it came from, when
\* that was cached, and whether this process fetched it or read it from the disk
NoParser ==
    [has |-> FALSE, rules |-> {}, delay |-> <<>>, resp |-> TransportError, at |-> 0,
     via |-> "none"]

\* no entry on disk; with the entry, history: the response it came from
NoCached == [has |-> FALSE, content |-> EmptyText, expire_time |-> 0, resp |-> TransportError]

NoHolder == 0

\* a call not yet answered: [origin, path, op], and whether it waited for the lock
NoRobotsCall == [origin |-> "x", path |-> <<"/">>, op |-> "none", waited |-> FALSE]

\* history: the last answer given: the call, the answer (allowed / delay), whether
\* it came from a parser (parsed), and of that parser: the response it came from
\* (resp), when that was cached (at), how it got into memory (via), the fetches made
\* for the origin by then, whether it was cached more than the TTL ago (late); and
\* how often the memory cache had been emptied by then (epoch)
NoAnswer ==
    [origin |-> "x", path |-> <<"/">>, op |-> "none", waited |-> FALSE, parsed |-> FALSE,
     allowed |-> FALSE, delay |-> <<>>, resp |-> TransportError, at |-> 0, via |-> "none",
     fetches |-> 0, late |-> FALSE, epoch |-> 0]

\* a lock that never makes a caller wait
LockFreeAlways(holder) == TRUE

\* "async with self._lock": the lock can be taken
LockFree(holder) == holder = NoHolder

\* self._cache.get(cache_key): the entry is there and its expire_time is ahead
CacheLive(e, t) == e.has /\ e.expire_time > t

\* parser.can_fetch / parser.crawl_delay on the parser pr handed back by _get_parser,
\* after n fetches for the origin
Answered(cl, pr, n) ==
    [origin |-> cl.origin, path |-> cl.path, op |-> cl.op, waited |-> cl.waited,
     parsed |-> TRUE,
     allowed |-> IF cl.op = "can_fetch" THEN RobotsAllows(pr.rules, cl.path) ELSE FALSE,
     delay |-> IF cl.op = "get_crawl_delay" THEN pr.delay ELSE <<>>,
     resp |-> pr.resp, at |-> pr.at, via |-> pr.via, fetches |-> n,
     late |-> now > pr.at + RobotsCacheTtl, epoch |-> rlog.resets]

RobotsIdle ==
    /\ rcfg = [respect_robots_txt |-> TRUE]
    /\ rparsers = [o \in Origins |-> NoParser]
    /\ rcache = [o \in Origins |-> NoCached]
    /\ rlock = NoHolder
    /\ rpc = [c \in RCallers |-> "idle"]
    /\ rcall = [c \in RCallers |-> NoRobotsCall]
    /\ rlog = [fetches |-> [o \in Origins |-> 0], resets |-> 0, last |-> NoAnswer]

\* RobotsParser.__init__ on an empty cache directory, for each respect_robots_txt
RobotsInit ==
    /\ rcfg \in [respect_robots_txt : BOOLEAN]
    /\ rparsers = [o \in Origins |-> NoParser]
    /\ rcache = [o \in Origins |-> NoCached]
    /\ rlock = NoHolder
    /\ rpc = [c \in RCallers |-> "idle"]
    /\ rcall = [c \in RCallers |-> NoRobotsCall]
    /\ rlog = [fetches |-> [o \in Origins |-> 0], resets |-> 0, last |-> NoAnswer]

\* _get_parser once the lock is held: memory cache, disk cache, or the fetch (the
\* lock stays held across the await of _fetch_robots_txt)
GetParserLocked(c, cl) ==
    IF rparsers[cl.origin].has
    THEN /\ rlog' = [rlog EXCEPT !.last =
                        Answered(cl, rparsers[cl.origin], rlog.fetches[cl.origin])]
         /\ rcall' = [rcall EXCEPT ![c] = NoRobotsCall]
         /\ rpc' = [rpc EXCEPT ![c] = "idle"]
         /\ UNCHANGED <<rparsers, rcache, rlock>>
    ELSE IF CacheLive(rcache[cl.origin], now)
    THEN LET pr == [has |-> TRUE,
                    rules |-> ParseRobots(rcache[cl.origin].content).rules,
                    delay |-> ParseRobots(rcache[cl.origin].content).delay,
                    resp |-> rcache[cl.origin].resp,
                    at |-> rcache[cl.origin].expire_time - RobotsCacheTtl,
                    via |-> "disk"]
         IN  /\ rparsers' = [rparsers EXCEPT ![cl.origin] = pr]
             /\ rlog' = [rlog EXCEPT !.last = Answered(cl, pr, rlog.fetches[cl.origin])]
             /\ rcall' = [rcall EXCEPT ![c] = NoRobotsCall]
             /\ rpc' = [rpc EXCEPT ![c] = "idle"]
             /\ UNCHANGED <<rcache, rlock>>
    ELSE /\ rlock' = c
         /\ rcall' = [rcall EXCEPT ![c] = cl]
         /\ rpc' = [rpc EXCEPT ![c] = "fetching"]
         /\ UNCHANGED <<rparsers, rcache, rlog>>

\* can_fetch(url) / get_crawl_delay(url) is called
RCall(c) ==
    /\ rpc[c] = "idle"
    /\ \E o \in Origins, p \in RobotsPaths, op \in {"can_fetch", "get_crawl_delay"} :
           LET cl == [NoRobotsCall EXCEPT !.origin = o, !.op = op,
                                          !.path = IF op = "can_fetch" THEN p ELSE <<"/">>]
           IN  IF op = "can_fetch" /\ ~rcfg.respect_robots_txt
               THEN /\ rlog' = [rlog EXCEPT !.last =
                                   [NoAnswer EXCEPT !.origin = o, !.path = cl.path, !.op = op,
                                                    !.allowed = TRUE, !.epoch = rlog.resets]]
                    /\ UNCHANGED <<rparsers, rcache, rlock, rpc, rcall>>
               ELSE IF LockFree(rlock)
               THEN GetParserLocked(c, cl)
               ELSE /\ rcall' = [rcall EXCEPT ![c] = [cl EXCEPT !.waited = TRUE]]
                    /\ rpc' = [rpc EXCEPT ![c] = "wait"]
                    /\ UNCHANGED <<rparsers, rcache, rlock, rlog>>
    /\ UNCHANGED <<now, rcfg, bucketVars, limiterVars, queueVars, storeVars, orchVars, proxyVars>>

\* a caller that waited for the lock gets it
RResume(c) ==
    /\ rpc[c] = "wait"
    /\ LockFree(rlock)
    /\ GetParserLocked(c, rcall[c])
    /\ UNCHANGED <<now, rcfg, bucketVars, limiterVars, queueVars, storeVars, orchVars, proxyVars>>

\* _fetch_robots_txt returns: the content is cached on disk with the TTL, parsed and
\* kept in memory; the lock is released and the caller is answered
RFetchDone(c) ==
    /\ rpc[c] = "fetching"
    /\ \E resp \in Responses :
           LET content == FetchRobotsTxt(resp)
               pr == [has |-> TRUE, rules |-> ParseRobots(content).rules,
                      delay |-> ParseRobots(content).delay, resp |-> resp, at |-> now,
                      via |-> "fetch"]
               o == rcall[c].origin
           IN  /\ rcache' = [rcache EXCEPT ![o] = [has |-> TRUE, content |-> content,
                                                   expire_time |-> now + RobotsCacheTtl,
                                                   resp |-> resp]]
               /\ rparsers' = [rparsers EXCEPT ![o] = pr]
               /\ rlog' = [rlog EXCEPT !.fetches[o] = @ + 1,
                                       !.last = Answered(rcall[c], pr, rlog.fetches[o] + 1)]
    /\ rlock' = NoHolder
    /\ rcall' = [rcall EXCEPT ![c] = NoRobotsCall]
    /\ rpc' = [rpc EXCEPT ![c] = "idle"]
    /\ UNCHANGED <<now, rcfg, bucketVars, limiterVars, queueVars, storeVars, orchVars, proxyVars>>

\* clear_cache()
RClearCache ==
    /\ rlog.resets < MaxResets
    /\ rcache' = [o \in Origins |-> NoCached]
    /\ rparsers' = [o \in Origins |-> NoParser]
    /\ rlog' = [rlog EXCEPT !.fetches = [o \in Origins |-> 0], !.resets = @ + 1]
    /\ UNCHANGED <<now, rcfg, rlock, rpc, rcall,
                   bucketVars, limiterVars, queueVars, storeVars, orchVars, proxyVars>>

\* a new process: RobotsParser.__init__ on the cache directory the last one left
RRestart ==
    /\ rlog.resets < MaxResets
    /\ \A c \in RCallers : rpc[c] = "idle"
    /\ rparsers' = [o \in Origins |-> NoParser]
    /\ rlock' = NoHolder
    /\ rlog' = [rlog EXCEPT !.fetches = [o \in Origins |-> 0], !.resets = @ + 1]
    /\ UNCHANGED <<now, rcfg, rcache, rpc, rcall,
                   bucketVars, limiterVars, queueVars, storeVars, orchVars, proxyVars>>

\* time passes
RTick ==
    /\ now < Epoch + MaxRobotsTime
    /\ now' = now + 1
    /\ UNCHANGED <<bucketVars, limiterVars, queueVars, storeVars, orchVars, robotsVars, proxyVars>>

(***************************************************************************)
(* ProxyPool (stealth/proxy_pool.py) and its reports from HTTPFetcher      *)
(***************************************************************************)
MaxProxies == 2
NumRequesters == 1
MaxFailCount == 3
MaxIndex == 2

\* config.proxy.max_failures
MaxFailures == 2

Requesters == 1..NumRequesters

\* get_proxy's None
NoProxy == 0

\* Proxy(url): is_healthy = True, failure_count = 0
NewProxy == [is_healthy |-> TRUE, failure_count |-> 0]

\* history of one proxy: the failures marked since its last success or reset, and
\* whether it was marked unhealthy with no successful health check or reset since
NewProxyHist == [reported |-> 0, sick |-> FALSE]

NoGet == [called |-> FALSE, ret |-> NoProxy, healthy |-> FALSE, sick |-> FALSE, n |-> 0,
          nHealthy |-> 0, enabled |-> FALSE]

\* history, if the last call on the pool was a health_check: how the echo request
\* ended, whether a failure was marked on the proxy and whether its count was reset
NoCheck == [outcome |-> "none", marked |-> FALSE, reset |-> FALSE]

\* history, if the last call on the pool came from the end of a fetch: how the fetch
\* ended, whether it went through a proxy, whether a failure was marked on the proxy
\* and whether its count was reset
NoFetchEnd == [outcome |-> "none", proxied |-> FALSE, marked |-> FALSE, reset |-> FALSE]

\* mark_failure that never touches the health flag
MarkFailureCountOnly(p) == [p EXCEPT !.failure_count = @ + 1]

\* Proxy.mark_failure
MarkFailure(p) ==
    [is_healthy |-> IF p.failure_count + 1 >= MaxFailures THEN FALSE ELSE p.is_healthy,
     failure_count |-> p.failure_count + 1]

\* Proxy.mark_success
MarkSuccess(p) == [is_healthy |-> TRUE, failure_count |-> 0]

\* Proxy.reset_health
ResetHealth(p) == [is_healthy |-> TRUE, failure_count |-> 0]

\* every proxy of the pool, healthy or not
AllProxies(ps) == [i \in 1..Len(ps) |-> i]

\* get_proxy's healthy_proxies = [p for p in self._proxies if p.is_healthy], as indices
HealthyProxies(ps) == SelectSeq([i \in 1..Len(ps) |-> i], LAMBDA i : ps[i].is_healthy)

\* get_proxy: the proxies it can return (NoProxy: None)
GetProxy(cfg, ps, idx) ==
    IF ~cfg.enabled \/ ps = <<>> THEN {NoProxy}
    ELSE IF HealthyProxies(ps) = <<>> THEN {NoProxy}
    ELSE IF cfg.strategy = "random"
    THEN {HealthyProxies(ps)[i] : i \in DOMAIN HealthyProxies(ps)}
    ELSE {HealthyProxies(ps)[(idx % Len(HealthyProxies(ps))) + 1]}

ProxyIdle ==
    /\ pcfg = [enabled |-> FALSE, strategy |-> "random"]
    /\ proxies = <<>>
    /\ pindex = 0
    /\ pfly = [r \in Requesters |-> [pc |-> "idle", proxy |-> NoProxy]]
    /\ phist = [proxy |-> <<>>, last |-> NoGet, check |-> NoCheck, req |-> NoFetchEnd]

\* ProxyPool.__init__, for each config.proxy.enabled and rotation strategy
ProxyInit ==
    /\ pcfg \in [enabled : BOOLEAN, strategy : {"random", "round_robin"}]
    /\ proxies = <<>>
    /\ pindex = 0
    /\ pfly = [r \in Requesters |-> [pc |-> "idle", proxy |-> NoProxy]]
    /\ phist = [proxy |-> <<>>, last |-> NoGet, check |-> NoCheck, req |-> NoFetchEnd]

\* add_proxy(url)
PAddProxy ==
    /\ Len(proxies) < MaxProxies
    /\ proxies' = Append(proxies, NewProxy)
    /\ phist' = [phist EXCEPT !.proxy = Append(@, NewProxyHist),
                              !.last = NoGet, !.check = NoCheck, !.req = NoFetchEnd]
    /\ UNCHANGED <<now, pcfg, pindex, pfly,
                   bucketVars, limiterVars, queueVars, storeVars, orchVars, robotsVars>>

\* HTTPFetcher.fetch asks get_proxy and sends its request through what it got
PGet(r) ==
    /\ pfly[r].pc = "idle"
    /\ pindex < MaxIndex
    /\ \E p \in GetProxy(pcfg, proxies, pindex) :
           /\ pfly' = [pfly EXCEPT ![r] = [pc |-> "flying", proxy |-> p]]
           /\ pindex' = IF p # NoProxy /\ pcfg.strategy # "random" THEN pindex + 1 ELSE pindex
           /\ phist' = [phist EXCEPT !.last =
                  [called |-> TRUE, ret |-> p,
                   healthy |-> p # NoProxy /\ proxies[p].is_healthy,
                   sick |-> p # NoProxy /\ phist.proxy[p].sick,
                   n |-> Len(proxies),
                   nHealthy |-> Cardinality({i \in DOMAIN proxies : proxies[i].is_healthy}),
                   enabled |-> pcfg.enabled],
                  !.check = NoCheck, !.req = NoFetchEnd]
    /\ UNCHANGED <<now, pcfg, proxies,
                   bucketVars, limiterVars, queueVars, storeVars, orchVars, robotsVars>>

\* the request succeeds (2xx): report_success, that is mark_success
PRequestOk(r) ==
    /\ pfly[r].pc = "flying"
    /\ pfly' = [pfly EXCEPT ![r] = [pc |-> "idle", proxy |-> NoProxy]]
    /\ IF pfly[r].proxy = NoProxy
       THEN /\ phist' = [phist EXCEPT !.req = [NoFetchEnd EXCEPT !.outcome = "2xx"],
                                     !.last = NoGet, !.check = NoCheck]
            /\ UNCHANGED proxies
       ELSE /\ proxies' = [proxies EXCEPT ![pfly[r].proxy] = MarkSuccess(@)]
            /\ phist' = [phist EXCEPT
                   !.proxy[pfly[r].proxy].reported = 0,
                   !.req = [outcome |-> "2xx", proxied |-> TRUE, marked |-> FALSE,
                            reset |-> proxies'[pfly[r].proxy].failure_count = 0],
                   !.last = NoGet, !.check = NoCheck]
    /\ UNCHANGED <<now, pcfg, pindex,
                   bucketVars, limiterVars, queueVars, storeVars, orchVars, robotsVars>>

\* the request is blocked (403 / 429) or raises an httpx.RequestError that is not a
\* timeout: report_failure, that is mark_failure
PRequestFailed(r) ==
    /\ pfly[r].pc = "flying"
    /\ pfly[r].proxy # NoProxy => proxies[pfly[r].proxy].failure_count < MaxFailCount
    /\ pfly' = [pfly EXCEPT ![r] = [pc |-> "idle", proxy |-> NoProxy]]
    /\ \E outcome \in {"blocked", "request_error"} :
           IF pfly[r].proxy = NoProxy
           THEN /\ phist' = [phist EXCEPT !.req = [NoFetchEnd EXCEPT !.outcome = outcome],
                                         !.last = NoGet, !.check = NoCheck]
                /\ UNCHANGED proxies
           ELSE /\ proxies' = [proxies EXCEPT ![pfly[r].proxy] = MarkFailure(@)]
                /\ phist' = [phist EXCEPT
                       !.proxy[pfly[r].proxy].reported = @ + 1,
                       !.proxy[pfly[r].proxy].sick =
                           @ \/ (proxies[pfly[r].proxy].is_healthy
                                     /\ ~proxies'[pfly[r].proxy].is_healthy),
                       !.req = [outcome |-> outcome, proxied |-> TRUE,
                                marked |-> proxies'[pfly[r].proxy].failure_count
                                               = proxies[pfly[r].proxy].failure_count + 1,
                                reset |-> FALSE],
                       !.last = NoGet, !.check = NoCheck]
    /\ UNCHANGED <<now, pcfg, pindex,
                   bucketVars, limiterVars, queueVars, storeVars, orchVars, robotsVars>>

\* the request ends with another status (neither 2xx nor 403 / 429) or with
\* httpx.TimeoutException, whose except clause comes first: no report
PRequestNoReport(r) ==
    /\ pfly[r].pc = "flying"
    /\ pfly' = [pfly EXCEPT ![r] = [pc |-> "idle", proxy |-> NoProxy]]
    /\ \E outcome \in {"other_status", "timeout"} :
           phist' = [phist EXCEPT !.req = [NoFetchEnd EXCEPT !.outcome = outcome,
                                                             !.proxied = pfly[r].proxy # NoProxy],
                             !.last = NoGet, !.check = NoCheck]
    /\ UNCHANGED <<now, pcfg, proxies, pindex,
                   bucketVars, limiterVars, queueVars, storeVars, orchVars, robotsVars>>

\* health_check(proxy) answered 200: mark_success
PHealthCheckOk(p) ==
    /\ p \in DOMAIN proxies
    /\ proxies' = [proxies EXCEPT ![p] = MarkSuccess(@)]
    /\ phist' = [phist EXCEPT !.proxy[p] = NewProxyHist,
                              !.check = [outcome |-> "200", marked |-> FALSE,
                                         reset |-> /\ proxies'[p].failure_count = 0
                                                   /\ proxies'[p].is_healthy],
                              !.last = NoGet, !.req = NoFetchEnd]
    /\ UNCHANGED <<now, pcfg, pindex, pfly,
                   bucketVars, limiterVars, queueVars, storeVars, orchVars, robotsVars>>

\* health_check(proxy) raises: mark_failure
PHealthCheckFailed(p) ==
    /\ p \in DOMAIN proxies
    /\ proxies[p].failure_count < MaxFailCount
    /\ proxies' = [proxies EXCEPT ![p] = MarkFailure(@)]
    /\ phist' = [phist EXCEPT
           !.proxy[p].reported = @ + 1,
           !.proxy[p].sick = @ \/ (proxies[p].is_healthy /\ ~proxies'[p].is_healthy),
           !.check = [outcome |-> "exception",
                      marked |-> proxies'[p].failure_count = proxies[p].failure_count + 1,
                      reset |-> FALSE],
           !.last = NoGet, !.req = NoFetchEnd]
    /\ UNCHANGED <<now, pcfg, pindex, pfly,
                   bucketVars, limiterVars, queueVars, storeVars, orchVars, robotsVars>>

\* health_check(proxy) answered with another status than 200: no mark; the call
\* returns proxy.is_healthy
PHealthCheckOther(p) ==
    /\ p \in DOMAIN proxies
    /\ phist' = [phist EXCEPT !.check = [outcome |-> "other_status", marked |-> FALSE,
                                         reset |-> FALSE],
                              !.last = NoGet, !.req = NoFetchEnd]
    /\ UNCHANGED <<now, pcfg, proxies, pindex, pfly,
                   bucketVars, limiterVars, queueVars, storeVars, orchVars, robotsVars>>

\* reset_all()
PResetAll ==
    /\ proxies # <<>>
    /\ proxies' = [i \in DOMAIN proxies |-> ResetHealth(proxies[i])]
    /\ phist' = [phist EXCEPT !.proxy = [i \in DOMAIN proxies |-> NewProxyHist],
                              !.last = NoGet, !.check = NoCheck, !.req = NoFetchEnd]
    /\ UNCHANGED <<now, pcfg, pindex, pfly,
                   bucketVars, limiterVars, queueVars, storeVars, orchVars, robotsVars>>

vars == <<now, bucket, bOp, domains, lpc, ldom, lnow, lwake, ltodo, lastReq,
          lastReturn, retGap, haltHist, queue, seen, qstats, qcfg, qOp, accepted, qcalls, qget,
          qadd, initialized, metadata, diskMeta, files, spc, sargs, slocal, sret, scalls,
          run, env, ostore, browser, stats, results, opc, ow,
          rcfg, rparsers, rcache, rlock, rpc, rcall, rlog,
          pcfg, proxies, pindex, pfly, phist>>

InitBucket ==
    /\ now = Epoch
    /\ BucketInit
    /\ LimiterInit
    /\ QueueIdle
    /\ StoreIdle
    /\ OrchIdle
    /\ RobotsIdle
    /\ ProxyIdle

NextBucket ==
    \/ BTick
    \/ BRefill
    \/ BConsume
    \/ BTimeUntilAvailable

SpecBucket == InitBucket /\ [][NextBucket]_vars

InitLimiter ==
    /\ now = Epoch
    /\ BucketInit
    /\ LimiterInit
    /\ QueueIdle
    /\ StoreIdle
    /\ OrchIdle
    /\ RobotsIdle
    /\ ProxyIdle

NextLimiter ==
    \/ LTick
    \/ \E w \in LimWorkers : LAcquire(w)
    \/ \E w \in LimWorkers : LWake(w)
    \/ \E w \in LimWorkers : LWakeJitter(w)
    \/ \E w \in LimWorkers : LStaticStart(w)
    \/ \E w \in LimWorkers : LStaticOk(w)
    \/ \E w \in LimWorkers : LStaticNeedsBrowser(w)
    \/ \E w \in LimWorkers : LStaticBlocked(w)
    \/ \E w \in LimWorkers : LStaticFailed(w)
    \/ \E w \in LimWorkers : LDynamicStart(w)
    \/ \E w \in LimWorkers : LDynamicDone(w)

SpecLimiter == InitLimiter /\ [][NextLimiter]_vars

\* TokenBucketRateLimiter(max_tokens = SmallBurst) after a report_success at Epoch
\* has created the domain's state, with workers whose requests succeed or fail
InitLimiterBurst ==
    /\ now = Epoch
    /\ BucketInit
    /\ domains = [d \in Domains |->
                      [NewDomainState(Epoch) EXCEPT
                           !.bucket = [tokens |-> SmallBurst, last_refill |-> Epoch,
                                       max_tokens |-> SmallBurst]]]
    /\ lpc = [w \in LimWorkers |-> "idle"]
    /\ ldom = [w \in LimWorkers |-> 0]
    /\ lnow = [w \in LimWorkers |-> 0]
    /\ lwake = [w \in LimWorkers |-> 0]
    /\ ltodo = NumLimUrls
    /\ lastReq = NoReq
    /\ lastReturn = [d \in Domains |-> -1]
    /\ retGap = -1
    /\ haltHist = [promised |-> [d \in Domains |-> 0], due |-> [w \in LimWorkers |-> 0],
                   early |-> FALSE]
    /\ QueueIdle
    /\ StoreIdle
    /\ OrchIdle
    /\ RobotsIdle
    /\ ProxyIdle

NextLimiterBurst ==
    \/ LTick
    \/ \E w \in LimWorkers : LAcquire(w)
    \/ \E w \in LimWorkers : LWake(w)
    \/ \E w \in LimWorkers : LWakeJitter(w)
    \/ \E w \in LimWorkers : LStaticStart(w)
    \/ \E w \in LimWorkers : LStaticOk(w)
    \/ \E w \in LimWorkers : LStaticFailed(w)

SpecLimiterBurst == InitLimiterBurst /\ [][NextLimiterBurst]_vars

InitQueue ==
    /\ now = Epoch
    /\ BucketInit
    /\ LimiterInit
    /\ QueueInit
    /\ StoreIdle
    /\ OrchIdle
    /\ RobotsIdle
    /\ ProxyIdle

NextQueue ==
    \/ QAdd
    \/ QGet
    \/ QPeek
    \/ QClear
    \/ QResetSeen

SpecQueue == InitQueue /\ [][NextQueue]_vars

\* the queue with callers of add, get() and get(timeout), and the clock
NextQueueTimed ==
    \/ QAdd
    \/ QGet
    \/ QGetTimeout
    \/ QGetWake
    \/ QClear
    \/ QTick

\* URLQueue(filter_robots=False)
InitQueueTimed ==
    /\ InitQueue
    /\ ~qcfg.filter_robots
    /\ qcfg.respect_robots_txt

SpecQueueTimed == InitQueueTimed /\ [][NextQueueTimed]_vars

\* URLQueue(max_size = MaxSize + 1, filter_robots = False) with callers of add and get
InitQueueOrder ==
    /\ now = Epoch
    /\ BucketInit
    /\ LimiterInit
    /\ queue = <<>>
    /\ seen = {}
    /\ qstats = [added |-> 0, processed |-> 0, filtered |-> 0, duplicates |-> 0]
    /\ qcfg = [filter_robots |-> FALSE, respect_robots_txt |-> TRUE, rules |-> {<<"/">>},
               max_size |-> MaxSize + 1]
    /\ qOp = NoQOp
    /\ accepted = [u \in UrlStrings |-> 0]
    /\ qcalls = [add |-> 0, reset_seen |-> 0]
    /\ qget = NoGetter
    /\ qadd = NoAdder
    /\ StoreIdle
    /\ OrchIdle
    /\ RobotsIdle
    /\ ProxyIdle

NextQueueOrder ==
    \/ QAdd
    \/ QGet

SpecQueueOrder == InitQueueOrder /\ [][NextQueueOrder]_vars

\* URLQueue(filter_robots = True) with respect_robots_txt on and a cold robots
\* cache, a task that calls add and a task that calls get(), and the clock
InitQueueLock ==
    /\ InitQueue
    /\ qcfg.filter_robots
    /\ qcfg.respect_robots_txt

NextQueueLock ==
    \/ QAddCall
    \/ QAddRobotsDone
    \/ QGetCall
    \/ QGetLockGranted
    \/ QTick

SpecQueueLock == InitQueueLock /\ [][NextQueueLock]_vars

InitStore ==
    /\ now = Epoch
    /\ BucketInit
    /\ LimiterInit
    /\ QueueIdle
    /\ StoreInit
    /\ OrchIdle
    /\ RobotsIdle
    /\ ProxyIdle

NextStore ==
    \/ \E t \in StoreTasks : SBegin(t)
    \/ \E t \in StoreTasks : SInitRead(t)
    \/ \E t \in StoreTasks : SFileOpen(t)
    \/ \E t \in StoreTasks : SFileWrite(t)
    \/ \E t \in StoreTasks : SMetaOpen(t)
    \/ \E t \in StoreTasks : SMetaDump(t)
    \/ \E t \in StoreTasks : SMetaLand(t)
    \/ \E t \in StoreTasks : SLoadRead(t)

SpecStore == InitStore /\ [][NextStore]_vars

\* the store called by one caller at a time, each call after the one before has
\* returned, with the clock going on between the steps
NextStoreSeq ==
    \/ \E t \in StoreTasks : SBeginAlone(t)
    \/ \E t \in StoreTasks : SInitRead(t)
    \/ \E t \in StoreTasks : SFileOpen(t)
    \/ \E t \in StoreTasks : SFileWrite(t)
    \/ \E t \in StoreTasks : SMetaOpen(t)
    \/ \E t \in StoreTasks : SMetaDump(t)
    \/ \E t \in StoreTasks : SMetaLand(t)
    \/ \E t \in StoreTasks : SLoadRead(t)
    \/ STick

SpecStoreSeq == InitStore /\ [][NextStoreSeq]_vars

\* the store called by the orchestrator's workers concurrently
NextStoreWorkers ==
    \/ \E t \in StoreTasks : SWorkerCall(t)
    \/ \E t \in StoreTasks : SInitRead(t)
    \/ \E t \in StoreTasks : SFileOpen(t)
    \/ \E t \in StoreTasks : SFileWrite(t)
    \/ \E t \in StoreTasks : SMetaOpen(t)
    \/ \E t \in StoreTasks : SMetaDump(t)
    \/ \E t \in StoreTasks : SMetaLand(t)
    \/ \E t \in StoreTasks : SLoadRead(t)

SpecStoreWorkers == InitStore /\ [][NextStoreWorkers]_vars

\* a store on an empty directory, each worker saving its own URL
InitStoreSaves ==
    /\ InitStore
    /\ diskMeta = NoFile

NextStoreSaves ==
    \/ \E t \in StoreTasks : SSaveOwn(t)
    \/ \E t \in StoreTasks : SFileOpen(t)
    \/ \E t \in StoreTasks : SFileWrite(t)
    \/ \E t \in StoreTasks : SMetaOpen(t)
    \/ \E t \in StoreTasks : SMetaDump(t)
    \/ \E t \in StoreTasks : SMetaLand(t)

SpecStoreSaves == InitStoreSaves /\ [][NextStoreSaves]_vars

InitRobots ==
    /\ now = Epoch
    /\ BucketInit
    /\ LimiterInit
    /\ QueueIdle
    /\ StoreIdle
    /\ OrchIdle
    /\ RobotsInit
    /\ ProxyIdle

NextRobots ==
    \/ RTick
    \/ RClearCache
    \/ RRestart
    \/ \E c \in RCallers : RCall(c)
    \/ \E c \in RCallers : RResume(c)
    \/ \E c \in RCallers : RFetchDone(c)

SpecRobots == InitRobots /\ [][NextRobots]_vars

InitProxy ==
    /\ now = Epoch
    /\ BucketInit
    /\ LimiterInit
    /\ QueueIdle
    /\ StoreIdle
    /\ OrchIdle
    /\ RobotsIdle
    /\ ProxyInit

NextProxy ==
    \/ PAddProxy
    \/ PResetAll
    \/ \E r \in Requesters : PGet(r)
    \/ \E r \in Requesters : PRequestOk(r)
    \/ \E r \in Requesters : PRequestFailed(r)
    \/ \E r \in Requesters : PRequestNoReport(r)
    \/ \E p \in 1..MaxProxies : PHealthCheckOk(p)
    \/ \E p \in 1..MaxProxies : PHealthCheckFailed(p)
    \/ \E p \in 1..MaxProxies : PHealthCheckOther(p)

SpecProxy == InitProxy /\ [][NextProxy]_vars

InitOrch ==
    /\ now = Epoch
    /\ BucketInit
    /\ LimiterInit
    /\ OrchQueueInit
    /\ StoreIdle
    /\ OrchInit
    /\ RobotsIdle
    /\ ProxyIdle

Next ==
    \/ ORun
    \/ ORunSingle
    \/ OStop
    \/ ORunReturn
    \/ \E w \in Workers : OGet(w)
    \/ \E w \in Workers : OAcquire(w)
    \/ \E w \in Workers : OExists(w)
    \/ \E w \in Workers : OLoad(w)
    \/ \E w \in Workers : OStatic(w)
    \/ \E w \in Workers : OInitBrowser(w)
    \/ \E w \in Workers : OBrowserStart(w)
    \/ \E w \in Workers : OBrowserFetch(w)
    \/ \E w \in Workers : OSave(w)
    \/ \E w \in Workers : OCloseBrowser(w)

Spec == InitOrch /\ [][Next]_vars

\* the steps of the worker tasks and of run / run_single after its workers: the
\* event loop runs every task that is ready, and every await of the pipeline
\* ends (sleeps are finite, fetches have timeouts)
Progress ==
    \/ ORunReturn
    \/ \E w \in Workers :
           \/ OGet(w) \/ OAcquire(w) \/ OExists(w) \/ OLoad(w) \/ OStatic(w)
           \/ OInitBrowser(w) \/ OBrowserStart(w) \/ OBrowserFetch(w) \/ OSave(w)
           \/ OCloseBrowser(w)

SpecLive == InitOrch /\ [][Next]_vars /\ WF_vars(Progress)

(***************************************************************************)
(* C6                                                                      *)
(***************************************************************************)
\* C6: in every reachable state of a TokenBucket with capacity C the token
\* count is within [0, C], and a refill sets the count to
\* min(C, previous tokens + elapsed * refill_rate), elapsed being the time
\* since the last refill.
C6_TokensWithinCapacity ==
    /\ 0 <= bucket.tokens
    /\ bucket.tokens <= MaxTokens
    /\ bOp.kind = "refill" =>
           bucket.tokens = Min(MaxTokens, bOp.prev + bOp.elapsed * RefillRate)

\* C6 witness: a refill that ran into the cap, after a consume had lowered the count
C6_Witness ==
    /\ bOp.kind = "refill"
    /\ bOp.prev < MaxTokens
    /\ bOp.prev + bOp.elapsed * RefillRate > MaxTokens
    /\ bucket.tokens = MaxTokens

(***************************************************************************)
(* C1, C2                                                                  *)
(***************************************************************************)
\* C1: no request, static or dynamic, to a domain is started while the
\* domain's halted_until is later than the current time.
C1_NoRequestWhileHalted ==
    lastReq.kind # "none" => lastReq.halted_until <= lastReq.at

\* C2: two consecutive returns of acquire for the same domain are at least
\* min_delay apart, whichever workers made the calls.
C2_ReturnsSpacedByMinDelay ==
    retGap >= 0 => retGap >= MinDelay

(***************************************************************************)
(* C3, C7                                                                  *)
(***************************************************************************)
\* C3: as long as reset_seen has not been called, at most one add is accepted
\* among all URLs that share a normalized form; a URL whose fingerprint is in
\* the seen set is rejected, also after its item was dequeued or cleared.
C3_OneAcceptPerNormalizedUrl ==
    qcalls.reset_seen = 0 =>
        /\ \A u \in UrlStrings : accepted[u] <= 1
        /\ \A u, v \in UrlStrings :
               (u # v /\ Normalize(u) = Normalize(v)) => accepted[u] + accepted[v] <= 1
        /\ \A u \in UrlStrings : accepted[u] > 0 => UrlHash(u) \in seen
        /\ (qOp.kind = "add" /\ qOp.wasSeen) => ~qOp.ret

\* C3 witness: an add of a different spelling of an accepted URL was rejected
\* after the accepted item had left the queue
C3_Witness ==
    /\ qcalls.reset_seen = 0
    /\ qOp.kind = "add" /\ qOp.wasSeen /\ ~qOp.ret
    /\ queue = <<>>
    /\ \E u \in UrlStrings :
           accepted[u] > 0 /\ u # qOp.url /\ Normalize(u) = Normalize(qOp.url)

\* C7: add returns true and enqueues exactly one item iff the fingerprint is
\* not in the seen set, the queue is shorter than max_size and, when robots
\* filtering is enabled and respected, robots permits the URL; otherwise it
\* returns false and enqueues nothing.
C7_AddAcceptsIff ==
    qOp.kind = "add" =>
        /\ qOp.ret <=> (~qOp.wasSeen /\ qOp.len < MaxSize /\ qOp.permitted)
        /\ Len(queue) = IF qOp.ret THEN qOp.len + 1 ELSE qOp.len
        /\ qOp.ret => \E i \in 1..Len(queue) : queue[i].url = qOp.url

\* C7 witness: an add was rejected by robots alone, on a queue that accepted before
C7_Witness ==
    /\ qOp.kind = "add" /\ ~qOp.ret
    /\ ~qOp.wasSeen /\ qOp.len < MaxSize /\ ~qOp.permitted
    /\ qstats.added > 0

(***************************************************************************)
(* C5                                                                      *)
(***************************************************************************)
\* C5: in every reachable state of the store, also in the middle of a save,
\* of an overwriting save and of a delete, an index entry for a url_hash
\* exists only if its content file exists and is completely written.
C5_IndexEntryImpliesCompleteFile ==
    \A u \in StoreUrls :
        metadata[u] # NoEntry => files[u] \notin {Absent, Partial}

(***************************************************************************)
(* C4                                                                      *)
(***************************************************************************)
\* C4: no URL that robots disallows is ever passed to the static or the
\* dynamic fetcher: run rejects it at enqueue time, run_single returns a
\* failure result without fetching it.
C4_DisallowedNeverFetched ==
    /\ \A w \in Workers :
           ow[w].nStatic + ow[w].nDynamic > 0 =>
               ~qcfg.respect_robots_txt \/ RobotsAllows(qcfg.rules, ow[w].url)
    /\ \A w \in Workers :
           ow[w].returned = "robots" =>
               ~ow[w].success /\ ow[w].nStatic = 0 /\ ow[w].nDynamic = 0

\* C4 witness: a run dropped a disallowed URL at enqueue time and fetched
\* another one, then run_single refused a disallowed URL
C4_Witness ==
    /\ qcfg.respect_robots_txt
    /\ qstats.filtered > 0
    /\ qstats.processed > 0
    /\ stats.http_fetches > 0
    /\ ow[1].returned = "robots"
    /\ ~RobotsAllows(qcfg.rules, ow[1].url)

(***************************************************************************)
(* C8                                                                      *)
(***************************************************************************)
\* C8 as stated: a URL not served from the store gets the static fetch first;
\* static success with quick_check true: one dynamic fetch, whose result is
\* returned; static 403 or 429: the domain is halted for the duration of that
\* status, one dynamic fetch, whose result is returned; in every other case
\* the static result is returned with no dynamic fetch and no halt.
C8_EscalationPolicy ==
    \A w \in Workers : LET p == ow[w] IN
    p.returned \in {"static", "dynamic", "raised"} =>
        /\ p.nStatic = 1
        /\ p.static = "ok_js" =>
               /\ p.nDynamic = 1 /\ p.returned = "dynamic"
               /\ p.haltedFor = 0
        /\ p.static = "403" =>
               /\ p.haltedFor = HaltOn403
               /\ p.nDynamic = 1 /\ p.returned = "dynamic"
        /\ p.static = "429" =>
               /\ p.haltedFor = HaltOn429
               /\ p.nDynamic = 1 /\ p.returned = "dynamic"
        /\ p.static \in {"ok", "error"} =>
               /\ p.nDynamic = 0 /\ p.returned = "static"
               /\ p.haltedFor = 0
               /\ p.success <=> p.static = "ok"

\* C8 amended: as C8, except that when the dynamic driver cannot be started an
\* escalated URL gets no dynamic fetch and fails (a halt that was set stays).
C8_EscalationPolicyUnlessNoDriver ==
    \A w \in Workers : LET p == ow[w] IN
    p.returned \in {"static", "dynamic", "raised"} =>
        /\ p.nStatic = 1
        /\ p.static = "403" => p.haltedFor = HaltOn403
        /\ p.static = "429" => p.haltedFor = HaltOn429
        /\ p.static \in {"ok_js", "403", "429"} =>
               IF env.driver_ok
               THEN p.nDynamic = 1 /\ p.returned = "dynamic"
               ELSE /\ p.nDynamic = 0 /\ p.returned = "raised"
                    /\ ~p.success
        /\ p.static = "ok_js" => p.haltedFor = 0
        /\ p.static \in {"ok", "error"} =>
               /\ p.nDynamic = 0 /\ p.returned = "static"
               /\ p.haltedFor = 0
               /\ p.success <=> p.static = "ok"

\* C8 witness: a static 429 halted the domain and the one dynamic fetch that
\* followed failed, so the URL failed
C8_Witness ==
    \E w \in Workers : LET p == ow[w] IN
    /\ p.static = "429"
    /\ p.returned = "dynamic"
    /\ p.nStatic = 1 /\ p.nDynamic = 1
    /\ ~p.success
    /\ domains[TheDomain].exists
    /\ domains[TheDomain].halted_until = now + HaltOn429

(***************************************************************************)
(* C9                                                                      *)
(***************************************************************************)
\* C9: every URL a run processes without serving it from the store adds one
\* to exactly one of http_fetches and browser_fetches, so when run has
\* returned http_fetches + browser_fetches = urls_processed - cached hits.
C9_CounterIdentity ==
    run.state = "returned" =>
        stats.http_fetches + stats.browser_fetches = stats.urls_processed - run.cached

(***************************************************************************)
(* C10                                                                     *)
(***************************************************************************)
\* C10: a URL the store holds when the pipeline reaches the store check gets no
\* static and no dynamic fetch and is returned as a success served from the
\* store; a run all of whose URLs are stored makes no page fetch.
C10_StoredUrlNotFetched ==
    /\ \A w \in Workers : ow[w].stored => ow[w].nStatic = 0 /\ ow[w].nDynamic = 0
    /\ \A w \in Workers :
           (ow[w].stored /\ ow[w].returned # "none") =>
               ow[w].returned = "cached" /\ ow[w].success
    /\ (run.state \in {"running", "returned"} /\ run.allStored) => run.fetches = 0

\* C10 witness: in a run over two stored URLs both have been served from the store
C10_Witness ==
    /\ run.state = "running"
    /\ run.allStored
    /\ run.cached = 2
    /\ stats.urls_successful = 2
    /\ \E w \in Workers : ow[w].stored /\ ow[w].returned = "cached" /\ ow[w].success
    /\ run.fetches = 0

(***************************************************************************)
(* C11                                                                     *)
(***************************************************************************)
\* C11: when stop is never called, run terminates, and when it has returned the
\* queue is empty and there is exactly one result for each URL the queue
\* accepted: results length = number accepted = urls_processed, and each
\* accepted URL has one result.
C11_RunDrainsQueue ==
    /\ [](( run.state = "returned" /\ ~run.ever) =>
            /\ queue = <<>>
            /\ Len(results) = run.added
            /\ stats.urls_processed = run.added
            /\ \A i, j \in 1..Len(results) : results[i].url = results[j].url => i = j
            /\ \A i \in 1..Len(results) : UrlHash(results[i].url) \in seen)
    /\ (run.state = "running" /\ ~run.ever) ~> (run.state = "returned" \/ run.ever)

\* C11 witness: a run of two accepted URLs has returned, never stopped, with
\* two results, one of them a failure
C11_Witness ==
    /\ run.state = "returned" /\ ~run.ever
    /\ run.added = 2
    /\ Len(results) = 2
    /\ \E i \in 1..2 : ~results[i].success

(***************************************************************************)
(* C12                                                                     *)
(***************************************************************************)
\* C12: once stop is called during a run no worker dequeues a further item (a
\* worker finishes at most the URL it holds), and run then returns with the
\* items that were queued at the time of the stop still in the queue.
C12_StopLeavesQueue ==
    /\ [](run.stop => Len(queue) = run.qAtStop)
    /\ (run.stop /\ run.state = "running") ~> (run.state = "returned")

\* C12 witness: a stopped run has returned with one result and one item left
C12_Witness ==
    /\ run.stop /\ run.state = "returned"
    /\ Len(results) = 1
    /\ Len(queue) = 1
    /\ run.qAtStop = 1

(***************************************************************************)
(* C13                                                                     *)
(***************************************************************************)
\* C13: after halt_domain(url, duration=D) at time t0, no acquire for the
\* domain invoked in [t0, t0+D) returns before t0+D, and is_halted (get_stats:
\* halted_until > time.time()) is true at every time in [t0, t0+D).
C13_HaltHoldsForDuration ==
    /\ ~haltHist.early
    /\ \A d \in Domains :
           now < haltHist.promised[d] =>
               domains[d].exists /\ domains[d].halted_until > now

(***************************************************************************)
(* C14 .. C17                                                              *)
(***************************************************************************)
\* C14: the answer of can_fetch follows from the response the rules came from: after
\* a 200 the URL is allowed iff no Disallow line of the body is a prefix of its path;
\* after a 404 or a 403 every URL is allowed; after any other status or a transport
\* error no URL is allowed.
C14_AnswerFollowsFetchOutcome ==
    (rlog.last.parsed /\ rlog.last.op = "can_fetch") =>
        rlog.last.allowed =
            IF rlog.last.resp.kind = "status" /\ rlog.last.resp.status = 200
            THEN \A i \in DOMAIN rlog.last.resp.body :
                     rlog.last.resp.body[i].k = "Disallow" =>
                         ~IsPrefix(rlog.last.resp.body[i].v, rlog.last.path)
            ELSE rlog.last.resp.kind = "status" /\ rlog.last.resp.status \in {404, 403}

C14_Witness ==
    /\ rlog.last.parsed /\ rlog.last.op = "can_fetch"
    /\ rlog.last.resp.kind = "status" /\ rlog.last.resp.status = 200
    /\ rlog.last.path = <<"/", "a">> /\ ~rlog.last.allowed

\* C15 as stated: every 4xx answer other than 404 (401, 403, ...) leaves a deny-all
\* entry, and a 404 leaves an allow-all entry.
C15_Only404AllowsAll ==
    \A o \in Origins :
        (rparsers[o].has /\ rparsers[o].resp.kind = "status") =>
            /\ (rparsers[o].resp.status \in 400..499 /\ rparsers[o].resp.status # 404) =>
                   \A p \in RobotsPaths : ~RobotsAllows(rparsers[o].rules, p)
            /\ rparsers[o].resp.status = 404 =>
                   \A p \in RobotsPaths : RobotsAllows(rparsers[o].rules, p)

\* C15, amended: every 4xx answer other than 404 and 403 (401, ...) leaves a deny-all
\* entry; a 404 and a 403 leave an allow-all entry.
C15_Only404And403AllowAll ==
    \A o \in Origins :
        (rparsers[o].has /\ rparsers[o].resp.kind = "status") =>
            /\ (rparsers[o].resp.status \in 400..499 /\ rparsers[o].resp.status \notin {404, 403}) =>
                   \A p \in RobotsPaths : ~RobotsAllows(rparsers[o].rules, p)
            /\ rparsers[o].resp.status \in {404, 403} =>
                   \A p \in RobotsPaths : RobotsAllows(rparsers[o].rules, p)

C15_Witness ==
    \E o \in Origins :
        /\ rparsers[o].has /\ rparsers[o].resp.kind = "status" /\ rparsers[o].resp.status = 403
        /\ rparsers[o].rules = {}
        /\ rlog.last.parsed /\ rlog.last.op = "can_fetch" /\ rlog.last.origin = o
        /\ rlog.last.epoch = rlog.resets /\ rlog.last.allowed

\* C16: while the memory cache has not been emptied, one robots.txt fetch at most is
\* made for an origin, however many callers ask at once; an answer from a fetched
\* (not disk-read) parser is given after exactly one fetch, and it is the answer of
\* the parser that fetch left in memory.
C16_OneFetchPerOrigin ==
    /\ \A o \in Origins : rlog.fetches[o] <= 1
    /\ rlog.last.parsed =>
           /\ rlog.last.via = "fetch" => rlog.last.fetches = 1
           /\ rlog.last.epoch = rlog.resets =>
                  LET pr == rparsers[rlog.last.origin]
                  IN  /\ pr.has /\ pr.resp = rlog.last.resp /\ pr.at = rlog.last.at
                      /\ rlog.last.op = "can_fetch" =>
                             rlog.last.allowed = RobotsAllows(pr.rules, rlog.last.path)
                      /\ rlog.last.op = "get_crawl_delay" => rlog.last.delay = pr.delay

C16_Witness ==
    /\ rlog.last.parsed /\ rlog.last.waited
    /\ rlog.last.via = "fetch" /\ rlog.last.fetches = 1
    /\ rlog.last.epoch = rlog.resets
    /\ rlog.fetches[rlog.last.origin] = 1
    /\ \A c \in RCallers : rpc[c] = "idle"

\* C17: no answer is given from rules whose robots.txt was cached more than the TTL
\* before the answer.
C17_EntryUsedWithinTtl ==
    rlog.last.parsed => ~rlog.last.late

(***************************************************************************)
(* C18 .. C20                                                              *)
(***************************************************************************)
\* C18: a proxy that was marked unhealthy, with no successful health check and no
\* reset since, has its health flag false and is not what get_proxy returned.
C18_UnhealthyUntilCheckOrReset ==
    /\ \A p \in DOMAIN proxies : phist.proxy[p].sick => ~proxies[p].is_healthy
    /\ (phist.last.called /\ phist.last.ret # NoProxy) => ~phist.last.sick

\* C19: the proxy get_proxy returned had its health flag true when it was selected,
\* and get_proxy returned none when the pool was disabled, empty, or held no
\* healthy proxy.
C19_GetProxyReturnsHealthy ==
    phist.last.called =>
        /\ phist.last.ret # NoProxy => phist.last.healthy
        /\ (~phist.last.enabled \/ phist.last.n = 0 \/ phist.last.nHealthy = 0) =>
               phist.last.ret = NoProxy

C19_Witness ==
    /\ phist.last.called
    /\ phist.last.ret # NoProxy
    /\ phist.last.n = MaxProxies
    /\ phist.last.nHealthy < phist.last.n

\* C20: failure_count is the number of failures marked since the proxy's last success
\* or reset, and the health flag is false exactly when that number has reached
\* max_failures.
C20_FailureCountAndThreshold ==
    \A p \in DOMAIN proxies :
        /\ proxies[p].failure_count = phist.proxy[p].reported
        /\ proxies[p].is_healthy <=> phist.proxy[p].reported < MaxFailures

C20_Witness ==
    \E p, q \in DOMAIN proxies :
        /\ proxies[p].failure_count = MaxFailures /\ ~proxies[p].is_healthy
        /\ proxies[q].failure_count = MaxFailures - 1 /\ proxies[q].is_healthy

(***************************************************************************)
(* C21, C22                                                                *)
(***************************************************************************)
\* C21: a health check answered 200 leaves the proxy healthy with its failure count
\* at 0; a health check that ends in any other way, a non-200 status or an
\* exception, marks one failure on the proxy.
C21_HealthCheckMarksEveryFailure ==
    /\ phist.check.outcome = "200" => phist.check.reset
    /\ phist.check.outcome \in {"other_status", "exception"} => phist.check.marked

\* C22: a fetch through a proxy that ends with a 2xx status reports a success (the
\* proxy's count is reset); one that ends with 403 / 429 or with any transport
\* error, a timeout included, marks one failure on the proxy.
C22_FetchReportsOutcomeToPool ==
    phist.req.proxied =>
        /\ phist.req.outcome = "2xx" => phist.req.reset
        /\ phist.req.outcome \in {"blocked", "request_error", "timeout"} => phist.req.marked
(***************************************************************************)
(* C23, C24                                                                *)
(***************************************************************************)
\* no call on the store is under way
StoreQuiet == \A t \in StoreTasks : spc[t] = "idle"

\* this step is a delete(u) that returns at once, having found the index as
\* EnsureInitialized gives it
DeleteRuns(t, u) ==
    /\ sret'.op = "delete" /\ sret'.url = u
    /\ \A x \in StoreTasks : spc'[x] = "idle"
    /\ \/ spc[t] = "idle" /\ scalls' = scalls + 1
       \/ spc[t] = "init_read" /\ sargs[t].op = "delete"

\* C23: between calls made one after the other, exists(u) is true iff load(u)
\* returns content; once delete(u) has returned, exists(u) is false and load(u)
\* returns nothing; and a delete of a URL that is not stored returns false and
\* changes neither the index, in memory or on disk, nor any content file.
C23_ExistsIffLoadAndDelete ==
    /\ [](StoreQuiet =>
            /\ \A u \in StoreUrls : Exists(u) <=> Load(u) # "none"
            /\ sret.op = "delete" => ~Exists(sret.url) /\ Load(sret.url) = "none")
    /\ [][\A t \in StoreTasks, u \in StoreUrls :
             (DeleteRuns(t, u) /\ ~Exists(u)) =>
                 /\ sret'.ret = "false"
                 /\ EnsureInitialized' = EnsureInitialized
                 /\ diskMeta' = diskMeta
                 /\ files' = files]_vars

\* a save and a delete of two stored URLs have returned, one after the other
C23_Witness ==
    /\ StoreQuiet
    /\ sret.op = "delete" /\ sret.ret = "true"
    /\ files[sret.url] = Absent
    /\ \E v \in StoreUrls : Exists(v) /\ Load(v) \in Contents /\ metadata[v].stored_at >= Epoch

\* C24: a save(u, c, s) that follows a save(u, c, s) leaves the disk as the first
\* one left it: the same set of content files, the same content for u, and the
\* same persisted index record for u.
C24_SaveTwiceSameDisk ==
    [][\A t \in StoreTasks :
          (/\ spc[t] = "meta_land" /\ spc'[t] = "idle" /\ sargs[t].op = "save"
           /\ sret.op = "save" /\ sret.url = sargs[t].url
           /\ sret.ret.content = sargs[t].content) =>
              /\ sret'.disk = sret.disk
              /\ files'[sargs[t].url] = sret.ret.content
              /\ diskMeta'.index[sargs[t].url] = sret.ret]_vars

\* C24, amended: a save(u, c, s) that follows a save(u, c, s) leaves the same set
\* of content files, the same content for u, and a persisted index record for u
\* that differs from the first one at most in stored_at, which is the time of
\* the later save.
C24_SaveTwiceSameDiskButStoredAt ==
    [][\A t \in StoreTasks :
          (/\ spc[t] = "meta_land" /\ spc'[t] = "idle" /\ sargs[t].op = "save"
           /\ sret.op = "save" /\ sret.url = sargs[t].url
           /\ sret.ret.content = sargs[t].content) =>
              /\ sret'.disk = sret.disk
              /\ files'[sargs[t].url] = sret.ret.content
              /\ \E at \in sret.ret.stored_at..now :
                     diskMeta'.index[sargs[t].url] = [sret.ret EXCEPT !.stored_at = at]]_vars

\* a save of a URL and content just saved has returned, at a later time
C24_Witness ==
    /\ StoreQuiet
    /\ sret.again
    /\ sret.ret.stored_at > Epoch
    /\ diskMeta = Persisted(metadata)
    /\ files[sret.url] = sret.ret.content
(***************************************************************************)
(* C25, C26                                                                *)
(***************************************************************************)
\* C25: when the extractor raises, over a fresh page or over cached content, the
\* URL's result still has success = true with an empty data map, the raw
\* content of a fresh fetch is in the store, and the worker is back at its loop
\* for the next URL.
C25_ExtractorFailureIsNotUrlFailure ==
    \A w \in Workers : LET p == ow[w] IN
    p.parser = "raised" =>
        /\ p.success /\ p.data = "empty"
        /\ p.returned \in {"cached", "static", "dynamic"}
        /\ ~p.cached => p.url \in ostore
        /\ ~p.single => opc[w] = "loop"
        /\ ~p.single => \E i \in 1..Len(results) : results[i] = [url |-> p.url, success |-> TRUE]

\* the extractor has raised over a fresh page in one worker and over cached
\* content in another
C25_Witness ==
    \E v, w \in Workers :
        /\ ow[v].parser = "raised" /\ ~ow[v].cached /\ ow[v].nStatic = 1 /\ ow[v].success
        /\ ow[w].parser = "raised" /\ ow[w].cached /\ ow[w].success
        /\ Len(results) = 2

\* C26: when storage.save fails for a URL whose fetch succeeded, the URL's result
\* is still a success.
C26_SaveFailureIsNotUrlFailure ==
    \A w \in Workers : ow[w].saveFailed => ow[w].success
(***************************************************************************)
(* C27                                                                     *)
(***************************************************************************)
\* C27: when the dynamic driver cannot be started, a URL fails on that account
\* only if its processing escalated to a dynamic fetch; a URL for which the
\* static fetch suffices, or which the store holds, completes successfully
\* (unless its save fails), whatever happened to the URLs before it; and run
\* terminates, with one result per accepted URL when it was not stopped.
C27_NoDriverFailsEscalationOnly ==
    /\ [](~env.driver_ok =>
            /\ \A w \in Workers : LET p == ow[w] IN
                   /\ p.returned = "raised" => p.escalated
                   /\ (p.returned \notin {"none", "robots"} /\ ~p.success) =>
                          p.escalated \/ p.static = "error" \/ p.saveFailed
                   /\ (p.returned # "none" /\ p.static = "ok" /\ ~p.saveFailed) => p.success
                   /\ (p.returned # "none" /\ p.cached) => p.success
            /\ (run.state = "returned" /\ ~run.ever) => Len(results) = run.added)
    /\ (~env.driver_ok /\ run.state = "running") ~> (run.state = "returned")

\* with no driver, a URL that escalated has failed and a URL taken after it got
\* its page from the static fetch and succeeded
C27_Witness ==
    /\ ~env.driver_ok
    /\ \E v, w \in Workers :
           /\ v # w
           /\ ow[v].returned = "raised" /\ ow[v].escalated /\ ~ow[v].success
           /\ ow[w].returned = "static" /\ ow[w].static = "ok" /\ ow[w].success
           /\ results = <<[url |-> ow[v].url, success |-> FALSE],
                          [url |-> ow[w].url, success |-> TRUE]>>

(***************************************************************************)
(* C28                                                                     *)
(***************************************************************************)
\* C28: during a run at most one dynamic driver is started, also when several
\* workers escalate at the same time, and when run has returned every driver
\* that was started has been closed.
C28_OneDriverStartedAndClosed ==
    /\ run.state \in {"running", "returned"} => browser.started <= 1
    /\ run.state = "returned" => browser.closed = browser.started
(***************************************************************************)
(* C29                                                                     *)
(***************************************************************************)
\* C29: every rejected add is counted in one rejection statistic, so the
\* rejection counters of get_stats and total_added add up to the number of add
\* calls.
C29_EveryAddCounted ==
    qstats.added + qstats.duplicates + qstats.filtered = qcalls.add

(***************************************************************************)
(* C30                                                                     *)
(***************************************************************************)
\* how often item x is in the heap q
ItemCount(q, x) == Cardinality({i \in 1..Len(q) : q[i] = x})

\* this step is a get that returns
GetReturns ==
    \/ qOp'.kind = "get" /\ (qOp' # qOp \/ qstats'.processed # qstats.processed)
    \/ qget.pc = "sleeping" /\ qget'.pc = "idle"

\* this step is a round of a get: the call of get(), or the call or a wake-up of
\* get(timeout)
GetLooks == GetReturns \/ qget' # qget

C31_EqualPriorityFifo ==
    [][(GetReturns /\ qOp'.ret) =>
           \A i \in 1..Len(queue) :
               queue[i].priority = qOp'.item.priority => qOp'.item.seq <= queue[i].seq
      ]_vars

\* the token count the last call found, after its refill
Refilled == Min(MaxTokens, bOp.prev + bOp.elapsed * RefillRate)

\* C32: consume(n) returns true and lowers the token count by exactly n when,
\* after the refill, tokens >= n; otherwise it returns false and leaves the
\* refilled count as it is. A fresh bucket of capacity C grants exactly C
\* consume(1) calls with no time passing and refuses the next one.
C32_ConsumeTakesExactlyN ==
    bOp.kind = "consume" =>
        /\ bOp.ret = 1 <=> Refilled >= bOp.n
        /\ bOp.ret = 1 => bucket.tokens = Refilled - bOp.n
        /\ bOp.ret = 0 => bucket.tokens = Refilled
        /\ bOp.units >= 0 =>
               /\ bOp.units <= MaxTokens
               /\ bOp.ret = 0 <=> (bOp.units = MaxTokens /\ bOp.prev = 0)
               /\ bucket.tokens = MaxTokens - bOp.units

\* C32 witness: a fresh bucket has granted MaxTokens unit consumes with no time
\* passing and has just refused one more
C32_Witness ==
    /\ bOp.kind = "consume" /\ bOp.n = 1 /\ bOp.ret = 0
    /\ bOp.units = MaxTokens
    /\ now = Epoch
    /\ bucket.tokens = 0

\* C33: every return of acquire has consumed one token of the domain's bucket, so
\* in any interval of length T at most C + R*T acquire calls return for one
\* domain; for the two most recent returns, retGap apart: 2 <= C + R * retGap.
C33_ReturnsWithinBucketRate ==
    \A d \in Domains :
        (domains[d].exists /\ lastReturn[d] >= 0 /\ retGap >= 0) =>
            2 <= domains[d].bucket.max_tokens + RefillRate * retGap

\* C35: halt_domain never moves a domain's halted_until to an earlier time: in
\* every step halted_until of a domain stays or grows, so a later block report
\* with a shorter duration does not shorten a halt already in force.
C35_HaltedUntilNeverDecreases ==
    [][\A d \in Domains :
           (domains[d].exists /\ domains'[d].exists) =>
               domains'[d].halted_until >= domains[d].halted_until
      ]_vars

\* the queue's lock is held
QueueLockHeld == qadd.pc # "idle"

\* a robots.txt fetch started by an add is in progress
RobotsFetchInFlight == qadd.pc = "robots"

\* C34: the queue's lock is not held while network I/O is in progress: no add
\* holds it during a robots.txt fetch, no get waits for it, and a get() without
\* timeout returns in the instant it was called.
C34_QueueLockNotHeldAcrossFetch ==
    /\ ~(QueueLockHeld /\ RobotsFetchInFlight)
    /\ qget.pc # "lock_wait"
    /\ (qOp.kind = "get" /\ qOp.timeout = NoTimeout) => qOp.waited = 0

\* C36: the lazy index load never discards an index entry added by a completed
\* save: while save(u) is the last call that returned, and no delete was ever
\* called, exists(u) answers true.
C36_LazyLoadKeepsSavedEntry ==
    sret.op = "save" => Exists(sret.url)

\* C37: after concurrent save calls for distinct URLs by different workers have
\* completed, metadata.json equals the in-memory index and holds an entry for
\* every URL that was saved.
C37_PersistedIndexEqualsMemory ==
    (sret.op = "save" /\ \A t \in StoreTasks : spc[t] = "idle") =>
        /\ diskMeta = Persisted(metadata)
        /\ \A u \in PresentFiles(files) : diskMeta.index[u] # NoEntry

\* the items add had accepted before the current run's add_many: the items this
\* run accepted from its urls argument carry these numbers and larger ones
AcceptedBeforeRun == qstats.added - run.added

\* C38: every result of run(urls) belongs to a URL that add_many accepted from
\* the urls argument of that call: a worker of a run dequeues, processes and
\* reports only items this run's add_many accepted, never an item left in the
\* queue by an earlier, stopped run.
C38_ResultsAreOfThisRun ==
    [][\A w \in Workers :
           (opc[w] = "loop" /\ opc'[w] = "acquire") =>
               HeapPop(queue)[2].seq >= AcceptedBeforeRun
      ]_vars

\* the results collected so far with the given outcome
ResultCount(ok) == Cardinality({i \in 1..Len(results) : results[i].success = ok})

\* C39: in every state of a run, between worker steps, urls_processed =
\* urls_successful + urls_failed = the number of results collected so far, for
\* any number of concurrent workers; the successes and the failures counted are
\* those among the results.
C39_CountersMatchResults ==
    /\ stats.urls_processed = stats.urls_successful + stats.urls_failed
    /\ stats.urls_processed = Len(results)
    /\ stats.urls_successful = ResultCount(TRUE)
    /\ stats.urls_failed = ResultCount(FALSE)

\* C39 witness: a run is under way with one failure and one success collected
\* by different workers
C39_Witness ==
    /\ run.state = "running"
    /\ Len(results) = 2
    /\ stats.urls_successful = 1 /\ stats.urls_failed = 1
    /\ \E v, w \in Workers :
           /\ v # w
           /\ ow[v].returned # "none" /\ ow[w].returned # "none"
           /\ ow[v].url # ow[w].url

\* this step is an add that returns False
AddRejected == qcalls'.add = qcalls.add + 1 /\ qOp'.kind = "add" /\ ~qOp'.ret

\* C40: an add that is rejected, as duplicate, robots-filtered or over-capacity,
\* leaves the queue contents and the seen set unchanged; a URL rejected for
\* another reason than being a duplicate is not marked seen, and add accepts it
\* once the queue has room and robots permits it.
C40_RejectedAddChangesNothing ==
    [][AddRejected =>
           /\ queue' = queue
           /\ seen' = seen
           /\ ~qOp'.wasSeen =>
                  /\ UrlHash(qOp'.url) \notin seen'
                  /\ LET room == IF Len(queue') >= qcfg.max_size
                                 THEN HeapPop(queue')[1] ELSE queue'
                         permitting == [qcfg EXCEPT !.rules = {}]
                     IN  AddOutcome(room, seen', permitting, qOp'.url) = "added"
      ]_vars

\* C40 witness: an add of a URL not seen before has just been rejected because
\* the queue was full, and the URL is not in the seen set
C40_Witness ==
    /\ qOp.kind = "add" /\ ~qOp.ret /\ ~qOp.wasSeen
    /\ qOp.len >= qcfg.max_size
    /\ Len(queue) = qcfg.max_size
    /\ UrlHash(qOp.url) \notin seen
    /\ qstats.duplicates = 0 /\ qstats.filtered = 0
====
